---- MODULE Spec2Model ----
(***************************************************************************)
(* The order-synchronisation core of the coffee-shop point of sale:        *)
(*   - the persistent store (localStorage collections orders and menu),    *)
(*   - the event bus (DBService.listeners plus the BroadcastChannel),      *)
(*   - the data-access operations of DBService (src/services/db.ts),       *)
(*   - the two reconcilers: the admin dashboard's reload loop and the      *)
(*     kiosk's status check (src/components/*.tsx).                        *)
(*                                                                         *)
(* A browser context (tab) runs one event loop.  A data-access operation   *)
(* suspends at each `await simulateNetwork()` (a 150 ms timeout); timeouts *)
(* of equal delay fire in the order they were set, so every context has a  *)
(* FIFO queue `timers` of suspended calls.  What runs after a timeout      *)
(* fires (read the collection, change it, write it back, publish) is one   *)
(* run of the event loop: nothing else of the SAME context runs in         *)
(* between (`running`), while OTHER contexts, being other processes on the *)
(* same localStorage, may take steps between the read, the write and the   *)
(* publish.                                                                *)
(***************************************************************************)
EXTENDS Integers, Sequences, FiniteSets, TLC

\* ------------------------------------------------------------- bounds
MaxCalls == 2        \* mutating data-access calls issued in one behaviour
MaxQueue == 2        \* suspended calls of one context at a time
MaxSubCalls == 3     \* subscribe() and unsubscribe() calls made in one behaviour
MaxQty == 2          \* quantity of one cart line

\* ------------------------------------------------------------- domains
Ctx == {"kiosk", "admin"}
CallIds == 1..MaxCalls
Listeners == {"L1", "L2"}
Status == {"pending", "preparing", "ready", "completed", "cancelled"}
StatusArgs == {"preparing"}

NoData == [none |-> TRUE]
NoCall == [kind |-> "none"]
NoOrder == [absent |-> TRUE]

\* One calendar day in milliseconds: setHours(0,0,0,0) .. setHours(23,59,59,999).
DayMs == 86400000

\* Date.now() values the model uses: two instants of day 0, the last
\* millisecond of day 0 and the first of day 1.
Times == {1000, 2000, DayMs - 1, DayMs}

CartLine(id, price, quantity) ==
    [id |-> id, price |-> price, quantity |-> quantity]

MkOrder(id, ts, status) ==
    [id |-> id, timestamp |-> ts, tableNumber |-> "T1", customerName |-> "Mo",
     items |-> <<CartLine(1, 3500, 2), CartLine(3, 4000, 1)>>, total |-> 11000,
     status |-> status]

MkItem(id, price) == [id |-> id, name |-> "item", price |-> price, category |-> "Coffee"]

INITIAL_MENU == <<MkItem(1, 3500), MkItem(2, 5500), MkItem(3, 4000)>>

\* ------------------------------------------------------------- pure helpers
RECURSIVE InsertDesc(_, _)
InsertDesc(sorted, o) ==
    \* insert o after every element whose timestamp is >= o's (stable)
    IF sorted = <<>> THEN <<o>>
    ELSE IF Head(sorted).timestamp >= o.timestamp
         THEN <<Head(sorted)>> \o InsertDesc(Tail(sorted), o)
         ELSE <<o>> \o sorted

RECURSIVE SortDesc(_)
SortDesc(s) ==
    IF s = <<>> THEN <<>>
    ELSE InsertDesc(SortDesc(SubSeq(s, 1, Len(s) - 1)), s[Len(s)])

Ids(s) == {s[i].id : i \in 1..Len(s)}

\* Array.prototype.findIndex / find: the first position holding the id, 0 if none
FindIndex(s, id) ==
    IF \E i \in 1..Len(s) : s[i].id = id
    THEN CHOOSE i \in 1..Len(s) : s[i].id = id /\ \A j \in 1..(i - 1) : s[j].id # id
    ELSE 0

Count(s, x) == Cardinality({i \in 1..Len(s) : s[i] = x})

StartOfDay(d) == (d \div DayMs) * DayMs
EndOfDay(d) == StartOfDay(d) + DayMs - 1

\* The value of an optional string property that is set to undefined, and the
\* optional string properties of the stored records (types.ts).
Undefined == "<undefined>"
OptionalKeys == {"customerId", "instructions", "image", "description", "password"}

\* What is not a property of the object and so not in its JSON text: whether an
\* order's item is still the very object the cart holds (shared).
NotProperties == {"shared"}

\* JSON.parse(JSON.stringify(r)) of one record: a property whose value is undefined
\* is left out of the text and so of the parsed object; the others come back as
\* they were (strings and finite numbers)
JsonRecord(r) ==
    [k \in {f \in DOMAIN r \ NotProperties : ~(f \in OptionalKeys /\ r[f] = Undefined)}
        |-> r[k]]

\* ... of an order: the same for the order and for each of its items
JsonOrder(o) ==
    LET r == JsonRecord(o)
    IN  [r EXCEPT !.items = [i \in DOMAIN r.items |-> JsonRecord(r.items[i])]]

\* ... of a collection
JsonOrders(os) == [i \in DOMAIN os |-> JsonOrder(os[i])]
JsonRecords(rs) == [i \in DOMAIN rs |-> JsonRecord(rs[i])]

\* reading property f of object r: undefined when the object has no such property
Field(r, f) == IF f \in DOMAIN r THEN r[f] ELSE Undefined

\* ------------------------------------------------------------- state
VARIABLES
    orders,      \* localStorage[hm_pos_orders]: the stored sequence of orders
    menu,        \* localStorage[hm_pos_menu]: the stored sequence of menu items
    customers,   \* localStorage[hm_pos_customers]: the stored sequence of customers
    listeners,   \* per context: DBService.listeners, in subscription order
    channel,     \* per context: BroadcastChannel messages posted to it, not yet handled
    timers,      \* per context: calls suspended in simulateNetwork(), FIFO
    running,     \* per context: the call whose continuation is running (NoCall if none)
    now,         \* Date.now()
    dash,        \* the admin dashboard component (context "admin")
    kiosk,       \* the customer kiosk component (context "kiosk")
    pos,         \* the OrderSystem component (context "admin")
    nextCall,    \* history: id given to the next mutating call
    pubs,        \* history: per call id, the publish it made (NoData if none yet)
    got,         \* history: <<context, listener, call id>> -> times the listener was invoked
    notified,    \* history: <<context, call id>> -> the listener lists notifyListeners
                 \*          ran over for that call's event, one per run
    unsubbed,    \* history: <<context, listener>> whose unsubscribe() was called since
                 \*          the listener was last subscribed
    subCalls,    \* history: number of subscribe() and unsubscribe() calls made
    lastWrite,   \* history: collection -> id of the call that wrote it last (0: none)
    hist,        \* history: call id -> the call: its context, arguments, progress, snapshot
    serial       \* history: the store a serial run of the writes made so far would hold

storeVars == <<orders, menu, customers>>
busVars == <<listeners, channel>>
loopVars == <<timers, running, now>>
uiVars == <<dash, kiosk, pos>>
histVars == <<nextCall, pubs, got, notified, unsubbed, subCalls, lastWrite, hist, serial>>
vars == <<orders, menu, customers, listeners, channel, timers, running, now, dash, kiosk,
          pos, nextCall, pubs, got, notified, unsubbed, subCalls, lastWrite, hist, serial>>

UiListeners == {"dash", "kioskTrack"}
AllListeners == Listeners \cup UiListeners

\* stores the program leaves behind: two orders of day 0, stored in the order
\* saveOrder leaves them (sorted, then the newest pushed last)
StoredOrders == <<MkOrder(1000, 1000, "pending"), MkOrder(2000, 2000, "pending")>>

\* ... and one registered customer
MkCustomer(id, phone) ==
    [id |-> id, name |-> "Mo", phone |-> phone, address |-> "A", password |-> "pw"]

StoredCustomers == <<MkCustomer("CUST-1000", "0911")>>

\* ------------------------------------------------------------- the operations' effects
OrderKinds == {"saveOrder", "updateOrderStatus", "clearOrdersByDate", "deleteOrder"}
MenuKinds == {"addMenuItem", "updateMenuItem", "deleteMenuItem"}
Mutators == OrderKinds \cup MenuKinds

CollectionOf(kind) == IF kind \in MenuKinds THEN "menu" ELSE "orders"

\* (mutant) the items of an order are looked up in the menu when the orders are read:
\* an item has the price the menu gives its id now
GetOrdersRepriced(stored) ==
    SortDesc([i \in DOMAIN stored |->
                [stored[i] EXCEPT !.items =
                    [j \in DOMAIN stored[i].items |->
                        IF FindIndex(menu, stored[i].items[j].id) = 0
                        THEN stored[i].items[j]
                        ELSE [stored[i].items[j] EXCEPT
                                !.price = menu[FindIndex(menu, stored[i].items[j].id)].price]]]])

\* (mutant) the orders are returned in stored order
GetOrdersAsStored(stored) == stored

\* what localStorage.getItem gives for a key that was never written (null)
NotWritten == <<[null |-> TRUE]>>

\* data ? JSON.parse(data) : []
Parse(text) == IF text = NotWritten THEN <<>> ELSE text

\* getOrders(): parse the stored collection and sort it by timestamp, newest first
GetOrders(stored) == SortDesc(Parse(stored))

\* getMenu(): the stored collection as it is
GetMenu(stored) == Parse(stored)

\* (mutant) the collections are parsed once and kept in memory
ReadOfCached(kind) == IF kind \in MenuKinds THEN GetMenu(INITIAL_MENU) ELSE GetOrders(StoredOrders)

\* what the call reads after its second suspension
ReadOf(kind) ==
    IF kind \in MenuKinds \cup {"getMenu"} THEN GetMenu(menu) ELSE GetOrders(orders)

\* (mutant) the collection is replaced by the new order alone
SaveOrderResultAlone(snap, order) == <<order>>

\* saveOrder: orders.push(order)
SaveOrderResult(snap, order) == Append(snap, order)

\* (mutant) the `if (order)` guard is missing
UpdateOrderStatusFoundAlways(snap, orderId) == TRUE

\* (mutant) the status is set on every order, not on the one found
UpdateOrderStatusResultAll(snap, orderId, status) ==
    [i \in DOMAIN snap |-> [snap[i] EXCEPT !.status = status]]

\* (mutant) the status is set only when it moves the order forward
UpdateOrderStatusResultForward(snap, orderId, status) ==
    LET rank == [s \in Status |->
                    CASE s = "pending" -> 1 [] s = "preparing" -> 2 [] s = "ready" -> 3
                      [] OTHER -> 4]
        i == FindIndex(snap, orderId)
    IN  IF rank[status] > rank[snap[i].status]
        THEN [snap EXCEPT ![i].status = status]
        ELSE snap

\* updateOrderStatus: order = orders.find(o => o.id === orderId); if (order) ...
UpdateOrderStatusFound(snap, orderId) == FindIndex(snap, orderId) # 0

\* ... order.status = status
UpdateOrderStatusResult(snap, orderId, status) ==
    [snap EXCEPT ![FindIndex(snap, orderId)].status = status]

\* (mutant) the item found is taken out and the new one pushed at the end
UpdateMenuItemResultMoved(snap, item) ==
    Append(SelectSeq(snap, LAMBDA i : i.id # item.id), item)

\* updateMenuItem: index = menu.findIndex(i => i.id === item.id); if (index !== -1) ...
UpdateMenuItemFound(snap, item) == FindIndex(snap, item.id) # 0

\* ... menu[index] = item
UpdateMenuItemResult(snap, item) == [snap EXCEPT ![FindIndex(snap, item.id)] = item]

\* addMenuItem: newId = Date.now(); menu.push({...item, id: newId})
AddMenuItemResult(snap, item, newId) == Append(snap, [item EXCEPT !.id = newId])

\* (mutant) when no item has the id, the last item goes
DeleteMenuItemResultOrLast(snap, id) ==
    IF id \in Ids(snap) \/ snap = <<>> THEN SelectSeq(snap, LAMBDA i : i.id # id)
    ELSE SubSeq(snap, 1, Len(snap) - 1)

\* deleteMenuItem: menu.filter(i => i.id !== id)
DeleteMenuItemResult(snap, id) == SelectSeq(snap, LAMBDA i : i.id # id)

\* deleteOrder: orders.filter(o => o.id !== id)
DeleteOrderResult(snap, id) == SelectSeq(snap, LAMBDA o : o.id # id)

\* (mutant) the order of the day's last millisecond is kept
ClearOrdersByDateResultOpenEnd(snap, date) ==
    SelectSeq(snap, LAMBDA o : o.timestamp < StartOfDay(date) \/ o.timestamp >= EndOfDay(date))

\* clearOrdersByDate: keep the orders outside [start of day, end of day]
ClearOrdersByDateResult(snap, date) ==
    SelectSeq(snap, LAMBDA o : o.timestamp < StartOfDay(date) \/ o.timestamp > EndOfDay(date))

\* (mutant) the day ends before its last millisecond
GetOrdersByDateResultOpenEnd(snap, date) ==
    SelectSeq(snap, LAMBDA o : o.timestamp >= StartOfDay(date) /\ o.timestamp < EndOfDay(date))

\* getOrdersByDate: the orders of getOrders() inside [start of day, end of day]
GetOrdersByDateResult(snap, date) ==
    SelectSeq(snap, LAMBDA o : o.timestamp >= StartOfDay(date) /\ o.timestamp <= EndOfDay(date))

ReadKinds == {"getOrders", "getOrdersByDate", "getMenu"}

\* whether the call, having read snap, goes on to write and publish
Writes(k, snap) ==
    CASE k.kind = "updateOrderStatus" -> UpdateOrderStatusFound(snap, k.arg.orderId)
      [] k.kind = "updateMenuItem" -> UpdateMenuItemFound(snap, k.arg.item)
      [] k.kind \in ReadKinds -> FALSE
      [] OTHER -> TRUE

\* what a call that does not write returns: the orders read, or nothing (void)
ReturnAtRead(k, snap) ==
    CASE k.kind \in {"getOrders", "getMenu"} -> snap
      [] k.kind = "getOrdersByDate" -> GetOrdersByDateResult(snap, k.arg.date)
      [] OTHER -> NoData

\* what a call that has written returns: the number of orders removed, the new
\* item's id, or nothing (void)
ReturnOf(k) ==
    CASE k.kind = "clearOrdersByDate" ->
            Len(k.snap) - Len(ClearOrdersByDateResult(k.snap, k.arg.date))
      [] k.kind = "addMenuItem" -> k.arg.newId
      [] OTHER -> NoData

\* the collection the call writes back
NewValue(k, snap) ==
    CASE k.kind = "saveOrder" -> SaveOrderResult(snap, k.arg.order)
      [] k.kind = "updateOrderStatus" ->
            UpdateOrderStatusResult(snap, k.arg.orderId, k.arg.status)
      [] k.kind = "clearOrdersByDate" -> ClearOrdersByDateResult(snap, k.arg.date)
      [] k.kind = "deleteOrder" -> DeleteOrderResult(snap, k.arg.id)
      [] k.kind = "addMenuItem" -> AddMenuItemResult(snap, k.arg.item, k.arg.newId)
      [] k.kind = "updateMenuItem" -> UpdateMenuItemResult(snap, k.arg.item)
      [] k.kind = "deleteMenuItem" -> DeleteMenuItemResult(snap, k.arg.id)

Event(type, data) == [type |-> type, data |-> data]

\* (mutant) every operation publishes a GENERIC_UPDATE
EventOfGeneric(k) == Event("GENERIC_UPDATE", NoData)

\* the event the call publishes after its write
EventOf(k) ==
    CASE k.kind = "saveOrder" -> Event("NEW_ORDER", k.arg.order)
      [] k.kind = "updateOrderStatus" ->
            Event("STATUS_UPDATE", [orderId |-> k.arg.orderId, status |-> k.arg.status])
      [] k.kind \in MenuKinds -> Event("MENU_UPDATE", NoData)
      [] OTHER -> Event("GENERIC_UPDATE", NoData)

\* channel.onmessage: data && data.type ? data : { type: 'GENERIC_UPDATE' }
OnMessageEvent(data) ==
    IF "type" \in DOMAIN data THEN data ELSE Event("GENERIC_UPDATE", NoData)

\* BroadcastChannel.postMessage: every context on the channel but the sender's own
\* (mutant) the message is posted to the sender's own context as well
RecipientsAll(c) == Ctx

Recipients(c) == Ctx \ {c}

\* ------------------------------------------------------------- the event loop
Blocked(c) == running[c] # NoCall

QueueFree(c) == Len(timers[c]) < MaxQueue

\* a call of the data-access layer made by `by`, suspended in a simulateNetwork():
\* its own (pc net1) or, for getOrders(), the only one there is (pc net2)
NewCallBy(kind, arg, by, pc) == [n |-> nextCall, kind |-> kind, arg |-> arg, pc |-> pc, by |-> by]

\* a mutating call, suspended in its first `await this.simulateNetwork()`
NewCall(kind, arg) == NewCallBy(kind, arg, "api", "net1")

\* who awaits a call of the data-access layer: a caller the model says nothing more
\* of, CustomerKiosk.handleCheckout, OrderSystem.handleCheckout
ApiCallers == {"api", "kioskCheckout", "posCheckout"}

\* a getOrders() call made by a component, suspended in getOrders' own simulateNetwork()
LoadCall(by, arg) == [n |-> 0, kind |-> "getOrders", arg |-> arg, pc |-> "net2", by |-> by]

\* ------------------------------------------------------------- the components' handlers
\* AdminDashboard's subscriber: NEW_ORDER more than 2 s after the last alert its
\* closure knows of (cap, the lastNotification of the render that subscribed it) sets
\* lastNotification, which re-runs the effect; every event reloads the orders.
ALERT_DEBOUNCE_MS == 2000

DashOnEvent(d, ev) ==
    IF ev.type = "NEW_ORDER" /\ now - d.cap > ALERT_DEBOUNCE_MS
    THEN [d EXCEPT !.lastNotification = now, !.effect = TRUE,
                   !.alerts = Append(@, now)]
    ELSE d

\* the calls a context's subscribers start when an event is handed to them, in
\* subscription order: the dashboard reloads, the kiosk checks a matching status update
RECURSIVE StartedBy(_, _)
StartedBy(ls, ev) ==
    IF ls = <<>> THEN <<>>
    ELSE (CASE Head(ls) = "dash" -> <<LoadCall("dash", NoData)>>
            [] Head(ls) = "kioskTrack"
               /\ ev.type = "STATUS_UPDATE" /\ ev.data.orderId = kiosk.cap.oid ->
                    <<LoadCall("kiosk", kiosk.cap)>>
            [] OTHER -> <<>>)
         \o StartedBy(Tail(ls), ev)

\* notifyListeners(event) in context c for the publish of call n:
\* this.listeners.forEach(l => l(event))
NotifyListeners(c, ev, n) ==
    /\ got' = [x \in DOMAIN got |->
                 IF x[1] = c /\ x[3] = n THEN got[x] + Count(listeners[c], x[2]) ELSE got[x]]
    /\ notified' = [notified EXCEPT ![<<c, n>>] = Append(@, listeners[c])]
    /\ timers' = [timers EXCEPT ![c] = @ \o StartedBy(listeners[c], ev)]
    /\ dash' = IF c = "admin" /\ Count(listeners[c], "dash") > 0
               THEN DashOnEvent(dash, ev) ELSE dash
    /\ UNCHANGED <<kiosk, pos>>

\* room in the timer queue for what the subscribers will start
NotifyRoom(c, ev) == Len(timers[c]) + Len(StartedBy(listeners[c], ev)) <= MaxQueue

\* ------------------------------------------------------------- initial states
InitHistory ==
    /\ nextCall = 1
    /\ pubs = [n \in CallIds |-> NoData]
    /\ got = [x \in Ctx \X AllListeners \X CallIds |-> 0]
    /\ notified = [x \in Ctx \X CallIds |-> <<>>]
    /\ unsubbed = {}
    /\ subCalls = 0
    /\ lastWrite = [coll \in {"orders", "menu"} |-> 0]
    /\ hist = [n \in CallIds |-> NoCall]

NoDash == [mounted |-> FALSE, orders |-> <<>>, lastNotification |-> 0, effect |-> FALSE,
           interval |-> FALSE, cap |-> 0, alerts |-> <<>>, selected |-> 0, peer |-> <<>>]
NoKiosk == [mounted |-> FALSE, activeOrderId |-> 0, activeOrder |-> NoOrder,
            effect |-> FALSE, cap |-> [oid |-> 0, prev |-> NoOrder], cart |-> <<>>,
            alerts |-> <<>>, isTrackingMinimized |-> FALSE, saved |-> ""]

\* OrderSystem before anything is put in its cart: useState([])
NoPos == [cart |-> <<>>]

InitLoop ==
    /\ channel = [c \in Ctx |-> <<>>]
    /\ timers = [c \in Ctx |-> <<>>]
    /\ running = [c \in Ctx |-> NoCall]

\* the store after init() and two checkouts, subscribers in both contexts, no
\* component mounted
Init ==
    /\ orders = StoredOrders
    /\ menu = INITIAL_MENU
    /\ listeners = [c \in Ctx |-> IF c = "admin" THEN <<"L1", "L2">> ELSE <<"L1">>]
    /\ now = DayMs - 1
    /\ customers = StoredCustomers
    /\ dash = NoDash
    /\ kiosk = NoKiosk
    /\ pos = NoPos
    /\ InitLoop
    /\ InitHistory
    /\ serial = [orders |-> orders, menu |-> menu]

\* ------------------------------------------------------------- inputs
OrderArgs == {MkOrder(3000, 3000, "pending")}
OrderIdArgs == {1000, 2000, 4000}
MenuItemArgs == {MkItem(1, 3600), MkItem(9, 3600)}
MenuIdArgs == {2, 9}
DateArgs == {1000}

\* ------------------------------------------------------------- calling an operation
\* Every operation starts with `await this.simulateNetwork()`.
StartCallBy(c, kind, arg, by, pc) ==
    /\ nextCall <= MaxCalls
    /\ ~Blocked(c)
    /\ QueueFree(c)
    /\ timers' = [timers EXCEPT ![c] = Append(@, NewCallBy(kind, arg, by, pc))]
    /\ nextCall' = nextCall + 1
    /\ hist' = [hist EXCEPT ![nextCall] =
                  [ctx |-> c, kind |-> kind, arg |-> arg, state |-> "pending",
                   wrote |-> FALSE, snap |-> <<>>, ret |-> NoData]]
    /\ UNCHANGED <<storeVars, busVars, running, now, uiVars, pubs, got, notified,
                   unsubbed, subCalls, lastWrite, serial>>

StartCall(c, kind, arg) == StartCallBy(c, kind, arg, "api", "net1")

CallSaveOrder(c) ==
    \E o \in OrderArgs : StartCall(c, "saveOrder", [order |-> o])

CallUpdateOrderStatus(c) ==
    \E id \in OrderIdArgs, s \in StatusArgs :
        StartCall(c, "updateOrderStatus", [orderId |-> id, status |-> s])

CallClearOrdersByDate(c) ==
    \E d \in DateArgs : StartCall(c, "clearOrdersByDate", [date |-> d])

CallAddMenuItem(c) ==
    StartCall(c, "addMenuItem", [item |-> MkItem(0, 5000), newId |-> 0])

CallUpdateMenuItem(c) ==
    \E item \in MenuItemArgs : StartCall(c, "updateMenuItem", [item |-> item])

CallDeleteMenuItem(c) ==
    \E id \in MenuIdArgs : StartCall(c, "deleteMenuItem", [id |-> id])

\* ------------------------------------------------------------- resuming a call
\* The first timeout of a mutating call fires: it goes on to `await this.getOrders()`
\* (or getMenu()), which suspends in its own simulateNetwork().
ResumeFirst(c) ==
    /\ ~Blocked(c)
    /\ timers[c] # <<>>
    /\ Head(timers[c]).pc = "net1"
    /\ timers' = [timers EXCEPT ![c] = Append(Tail(@), [Head(@) EXCEPT !.pc = "net2"])]
    /\ UNCHANGED <<storeVars, busVars, running, now, uiVars, histVars>>

\* the value Date.now() gives the continuation (addMenuItem's newId)
Stamp(k) == IF k.kind = "addMenuItem" THEN [k EXCEPT !.arg.newId = now] ELSE k

\* The second timeout of a mutating call fires: getOrders()/getMenu() reads the
\* collection and the call's continuation starts.  A call that finds nothing to
\* update returns here, with no write and no event.
ResumeRead(c) ==
    /\ ~Blocked(c)
    /\ timers[c] # <<>>
    /\ Head(timers[c]).pc = "net2"
    /\ Head(timers[c]).by \in ApiCallers
    /\ LET k == Head(timers[c])
           snap == ReadOf(k.kind)
       IN  /\ timers' = [timers EXCEPT ![c] = Tail(@)]
           /\ IF Writes(k, snap)
              THEN /\ running' = [running EXCEPT ![c] =
                          [n |-> k.n, kind |-> k.kind, arg |-> Stamp(k).arg,
                           pc |-> "read", snap |-> snap, by |-> k.by]]
                   /\ hist' = [hist EXCEPT ![k.n].state = "running",
                                            ![k.n].arg = Stamp(k).arg,
                                            ![k.n].snap = snap]
              ELSE /\ hist' = [hist EXCEPT ![k.n].state = "resolved", ![k.n].snap = snap,
                                            ![k.n].ret = ReturnAtRead(k, snap)]
                   /\ UNCHANGED running
    /\ UNCHANGED <<storeVars, busVars, now, uiVars, nextCall, pubs, got, notified,
                   unsubbed, subCalls, lastWrite, serial>>

\* (mutant) the setItem is missing
WriteBackSkipped(k) == UNCHANGED <<orders, menu>>

\* (mutant) the change is applied to the collection as stored at the write
WriteBackMerging(k) ==
    IF CollectionOf(k.kind) = "menu"
    THEN menu' = NewValue(k, GetMenu(menu)) /\ UNCHANGED orders
    ELSE orders' = NewValue(k, GetOrders(orders)) /\ UNCHANGED menu

\* localStorage.setItem(key, JSON.stringify(collection)); the store holds what a
\* JSON.parse of that text gives
WriteBack(k) ==
    IF CollectionOf(k.kind) = "menu"
    THEN menu' = JsonRecords(NewValue(k, k.snap)) /\ UNCHANGED orders
    ELSE orders' = JsonOrders(NewValue(k, k.snap)) /\ UNCHANGED menu

\* the same operation applied to the serial store: the collection as a getOrders()
\* or getMenu() of the serial store gives it, changed the way the call changes it
SerialAfter(k) ==
    LET coll == CollectionOf(k.kind)
        read == IF coll = "menu" THEN GetMenu(serial.menu) ELSE GetOrders(serial.orders)
        json == IF coll = "menu" THEN JsonRecords(NewValue(k, read))
                ELSE JsonOrders(NewValue(k, read))
    IN  IF Writes(k, read) THEN [serial EXCEPT ![coll] = json] ELSE serial

WriteStep(c) ==
    /\ running[c] # NoCall
    /\ running[c].pc = "read"
    /\ WriteBack(running[c])
    /\ lastWrite' = [lastWrite EXCEPT ![CollectionOf(running[c].kind)] = running[c].n]
    /\ running' = [running EXCEPT ![c].pc = "wrote"]
    /\ hist' = [hist EXCEPT ![running[c].n].wrote = TRUE]
    /\ serial' = SerialAfter(running[c])
    /\ UNCHANGED <<customers, busVars, timers, now, uiVars, nextCall, pubs, got, notified,
                   unsubbed, subCalls>>

\* (mutant) the event is posted to the channel and not handed to the listeners of
\* the publishing context
BroadcastUpdateRemoteOnly(c, ev, n) ==
    /\ channel' = [d \in Ctx |->
                     IF d \in Recipients(c)
                     THEN Append(channel[d], [pub |-> n, data |-> ev]) ELSE channel[d]]
    /\ UNCHANGED <<got, notified, timers, dash, kiosk, pos>>

\* broadcastUpdate(event): channel.postMessage(event); notifyListeners(event)
BroadcastUpdate(c, ev, n) ==
    /\ channel' = [d \in Ctx |->
                     IF d \in Recipients(c)
                     THEN Append(channel[d], [pub |-> n, data |-> ev]) ELSE channel[d]]
    /\ NotifyListeners(c, ev, n)

PublishStep(c) ==
    /\ running[c] # NoCall
    /\ running[c].pc = "wrote"
    /\ NotifyRoom(c, EventOf(running[c]))
    /\ BroadcastUpdate(c, EventOf(running[c]), running[c].n)
    /\ pubs' = [pubs EXCEPT ![running[c].n] =
                  [ctx |-> c, ev |-> EventOf(running[c]), subs |-> listeners]]
    /\ hist' = [hist EXCEPT ![running[c].n].state = "resolved",
                             ![running[c].n].ret = ReturnOf(running[c])]
    /\ running' = [running EXCEPT ![c] = IF running[c].by = "api" THEN NoCall
                                         ELSE [running[c] EXCEPT !.pc = "published"]]
    /\ UNCHANGED <<storeVars, listeners, now, nextCall, unsubbed, subCalls, lastWrite, serial>>

\* channel.onmessage in context c: the oldest message posted to it is handled
Deliver(c) ==
    /\ ~Blocked(c)
    /\ channel[c] # <<>>
    /\ NotifyRoom(c, OnMessageEvent(Head(channel[c]).data))
    /\ NotifyListeners(c, OnMessageEvent(Head(channel[c]).data), Head(channel[c]).pub)
    /\ channel' = [channel EXCEPT ![c] = Tail(@)]
    /\ UNCHANGED <<storeVars, listeners, running, now, nextCall, pubs, unsubbed,
                   subCalls, lastWrite, hist, serial>>

\* ------------------------------------------------------------- the event bus
\* (mutant) the listener is not taken out of the list
RemoveListenerNone(ls, l) == ls

\* this.listeners.filter(x => x !== listener): every entry of that function goes
RemoveListener(ls, l) == SelectSeq(ls, LAMBDA x : x # l)

\* subscribe(listener): this.listeners.push(listener)
Subscribe(c, l) ==
    /\ ~Blocked(c)
    /\ listeners' = [listeners EXCEPT ![c] = Append(@, l)]
    /\ unsubbed' = unsubbed \ {<<c, l>>}
    /\ subCalls < MaxSubCalls
    /\ subCalls' = subCalls + 1
    /\ UNCHANGED <<storeVars, channel, loopVars, uiVars, nextCall, pubs, got, notified,
                   lastWrite, hist, serial>>

\* the function subscribe(listener) returned is called
Unsubscribe(c, l) ==
    /\ ~Blocked(c)
    /\ Count(listeners[c], l) > 0
    /\ listeners' = [listeners EXCEPT ![c] = RemoveListener(@, l)]
    /\ unsubbed' = unsubbed \cup {<<c, l>>}
    /\ subCalls < MaxSubCalls
    /\ subCalls' = subCalls + 1
    /\ UNCHANGED <<storeVars, channel, loopVars, uiVars, nextCall, pubs, got, notified,
                   lastWrite, hist, serial>>

\* time passes
Tick ==
    /\ \E t \in Times : t > now
    /\ now' = CHOOSE t \in Times : t > now /\ \A u \in Times : u > now => t <= u
    /\ UNCHANGED <<storeVars, busVars, timers, running, uiVars, histVars>>

\* ------------------------------------------------------------- the data-access layer
Calls(c) ==
    \/ CallSaveOrder(c)
    \/ CallUpdateOrderStatus(c)
    \/ CallClearOrdersByDate(c)
    \/ CallAddMenuItem(c)
    \/ CallUpdateMenuItem(c)
    \/ CallDeleteMenuItem(c)

Steps(c) ==
    \/ ResumeFirst(c)
    \/ ResumeRead(c)
    \/ WriteStep(c)
    \/ PublishStep(c)
    \/ Deliver(c)

\* the steps of a context's own calls (no other context posts to it)
OwnSteps(c) ==
    \/ ResumeFirst(c)
    \/ ResumeRead(c)
    \/ WriteStep(c)
    \/ PublishStep(c)

Next == \E c \in Ctx : Calls(c) \/ Steps(c)

Spec == Init /\ [][Next]_vars

\* One context alone: every call, and every step, is the admin tab's.
NextOneCtx ==
    \/ Calls("admin")
    \/ ResumeFirst("admin")
    \/ ResumeRead("admin")
    \/ WriteStep("admin")
    \/ PublishStep("admin")

SpecOneCtx == Init /\ [][NextOneCtx]_vars

\* ------------------------------------------------------------- what the claims speak of
Stored(coll) == IF coll = "menu" THEN menu ELSE orders

\* what the store holds after value is written to collection coll
Stringified(coll, value) == IF coll = "menu" THEN JsonRecords(value) ELSE JsonOrders(value)

Window(o, date) == o.timestamp >= StartOfDay(date) /\ o.timestamp <= EndOfDay(date)

\* the effect of call h is in the store
EffectIn(h) ==
    CASE h.kind = "saveOrder" -> \E i \in 1..Len(orders) : orders[i] = JsonOrder(h.arg.order)
      [] h.kind = "updateOrderStatus" ->
            \E i \in 1..Len(orders) :
                orders[i].id = h.arg.orderId /\ orders[i].status = h.arg.status
      [] h.kind = "clearOrdersByDate" ->
            \A i \in 1..Len(orders) : ~Window(orders[i], h.arg.date)
      [] h.kind = "addMenuItem" ->
            \E i \in 1..Len(menu) : menu[i] = [h.arg.item EXCEPT !.id = h.arg.newId]
      [] h.kind = "updateMenuItem" -> \E i \in 1..Len(menu) : menu[i] = h.arg.item
      [] h.kind = "deleteMenuItem" -> h.arg.id \notin Ids(menu)

Issued(n) == hist[n] # NoCall
Published(n) == pubs[n] # NoData
InFlight(c, n) == \E i \in 1..Len(channel[c]) : channel[c][i].pub = n
Handled(c, n) == notified[<<c, n>>] # <<>>

\* C2: write before publish.  Whenever an event of a mutating call exists (published,
\* in flight to a context, or handed to listeners), the call has already written its
\* collection, the event is the one defined for the operation, and, unless a later
\* write replaced the collection since, the store holds the call's effect (the saved
\* order, the new status, the changed menu).
C2_WriteBeforePublish ==
    \A n \in CallIds :
        (Published(n) \/ \E c \in Ctx : InFlight(c, n) \/ Handled(c, n)) =>
            /\ Issued(n)
            /\ hist[n].wrote
            /\ Published(n) /\ pubs[n].ev = EventOf(hist[n])
            /\ lastWrite[CollectionOf(hist[n].kind)] = n => EffectIn(hist[n])

\* a listener of the other context has received NEW_ORDER and the order is stored
C2_Witness ==
    \E n \in CallIds, c \in Ctx :
        /\ Issued(n) /\ hist[n].kind = "saveOrder"
        /\ c # hist[n].ctx /\ got[<<c, "L1", n>>] > 0
        /\ lastWrite["orders"] = n
        /\ EffectIn(hist[n])

\* C7: a write replaces the whole collection by what its call computed from the
\* snapshot it read, whatever was stored in between: the stored collection is always
\* the last writer's own result.  So two mutations from two contexts can both
\* complete and publish while the store keeps the effect of one only (C7_LostUpdate).
C7_FullReplace ==
    \A coll \in {"orders", "menu"} :
        lastWrite[coll] # 0 =>
            Stored(coll) = Stringified(coll, NewValue(hist[lastWrite[coll]],
                                                      hist[lastWrite[coll]].snap))

\* saveOrder in one context and updateOrderStatus of another order in the other have
\* both completed and published, and the saved order is not in the store
C7_LostUpdate ==
    \E a \in CallIds, b \in CallIds :
        /\ Issued(a) /\ Issued(b)
        /\ hist[a].ctx # hist[b].ctx
        /\ hist[a].kind = "saveOrder" /\ hist[b].kind = "updateOrderStatus"
        /\ hist[a].state = "resolved" /\ hist[b].state = "resolved"
        /\ Published(a) /\ Published(b)
        /\ ~EffectIn(hist[a]) /\ EffectIn(hist[b])
        /\ orders # serial.orders

\* C8: within one context the operations are atomic with respect to each other: the
\* snapshot a call holds when it is about to write is the collection as stored (no
\* write separates its read from its write), and the store is what running the
\* writes one after another would give (no completed mutation's effect is lost).
C8_AtomicInOneContext ==
    /\ \A c \in Ctx :
          (running[c] # NoCall /\ running[c].pc = "read") =>
              running[c].snap = IF CollectionOf(running[c].kind) = "menu"
                                THEN GetMenu(menu) ELSE GetOrders(orders)
    /\ orders = serial.orders
    /\ menu = serial.menu

\* two mutations of the same collection overlap in one context: one is about to
\* write while the other is suspended inside its getOrders()/getMenu()
C8_Overlap ==
    \E c \in Ctx :
        /\ running[c] # NoCall /\ running[c].pc = "read"
        /\ \E i \in 1..Len(timers[c]) :
              /\ timers[c][i].pc = "net2"
              /\ CollectionOf(timers[c][i].kind) = CollectionOf(running[c].kind)

\* the step in which context c's running updateOrderStatus writes the collection back
StatusWrite(c) ==
    /\ running[c] # NoCall
    /\ running[c].pc = "read"
    /\ running[c].kind = "updateOrderStatus"
    /\ running'[c] # NoCall
    /\ running'[c].pc = "wrote"

\* `after` is `before` with the status of one order of that id set, nothing else changed
StatusOnly(before, after, orderId, status) ==
    /\ Len(after) = Len(before)
    /\ \E i \in 1..Len(before) :
          /\ before[i].id = orderId
          /\ after[i].id = orderId
          /\ after[i].status = status
          /\ after[i].total = before[i].total
          /\ after[i].items = before[i].items
          /\ after[i].timestamp = before[i].timestamp
          /\ after[i].tableNumber = before[i].tableNumber
          /\ after[i].customerName = before[i].customerName
          /\ \A j \in 1..Len(before) : j # i => after[j] = before[j]

Range(s) == {s[i] : i \in 1..Len(s)}

\* the same, of the stored collection, whatever order it is stored in: one order of
\* that id has its status set and every other record is there as often as before
StoredStatusOnly(before, after, orderId, status) ==
    /\ Len(after) = Len(before)
    /\ \E old \in Range(before) :
          /\ old.id = orderId
          /\ \A x \in Range(before) \cup Range(after) :
                Count(after, x) = Count(before, x)
                                  - (IF x = old THEN 1 ELSE 0)
                                  + (IF x = [old EXCEPT !.status = status] THEN 1 ELSE 0)

\* C9: updateOrderStatus(id, s) for an id it finds changes only that order's status:
\* the collection it writes is the collection it read (getOrders' result) with the
\* status of that one order set; total, items, timestamp and tableNumber of the order
\* and every other order are as they were.  Where nothing was written between its
\* read and its write, that is the stored collection before and after the call.
C9_StatusOnly ==
    [][\A c \in Ctx :
          StatusWrite(c) =>
              /\ StatusOnly(running[c].snap, orders',
                            running[c].arg.orderId, running[c].arg.status)
              /\ menu' = menu
              /\ GetOrders(orders) = running[c].snap =>
                    StoredStatusOnly(orders, orders',
                                     running[c].arg.orderId, running[c].arg.status)]_vars

\* an updateOrderStatus has written a collection of several orders
C9_Witness ==
    \E c \in Ctx :
        /\ running[c] # NoCall
        /\ running[c].pc = "wrote"
        /\ running[c].kind = "updateOrderStatus"
        /\ Len(orders) >= 2
        /\ \E i \in 1..Len(orders) :
              orders[i].id = running[c].arg.orderId /\ orders[i].status = "preparing"
        /\ \E i \in 1..Len(orders) : orders[i].status = "pending"

\* the step in which the call at the head of c's timers reads and returns at once
ReturnsAtRead(c, kind) ==
    /\ ~Blocked(c)
    /\ timers[c] # <<>>
    /\ Head(timers[c]).pc = "net2"
    /\ Head(timers[c]).kind = kind
    /\ timers'[c] = Tail(timers[c])

NothingChanged(c) ==
    /\ orders' = orders
    /\ menu' = menu
    /\ channel' = channel
    /\ listeners' = listeners
    /\ pubs' = pubs
    /\ got' = got
    /\ notified' = notified
    /\ running'[c] = NoCall
    /\ hist'[Head(timers[c]).n].state = "resolved"
    /\ ~hist'[Head(timers[c]).n].wrote

\* C10: an update addressed to an unknown id is a silent no-op.  When
\* updateOrderStatus resumes and the order id is not in the stored orders, or
\* updateMenuItem resumes and the item id is not in the stored menu, the call returns
\* at once: no collection changes, no event is posted or handed to a listener, and
\* the call resolves.
C10_UnknownIdNoOp ==
    [][\A c \in Ctx :
          /\ (ReturnsAtRead(c, "updateOrderStatus")
              /\ Head(timers[c]).arg.orderId \notin Ids(orders)) => NothingChanged(c)
          /\ (ReturnsAtRead(c, "updateMenuItem")
              /\ Head(timers[c]).arg.item.id \notin Ids(menu)) => NothingChanged(c)]_vars

\* an updateOrderStatus and an updateMenuItem of unknown ids have both resolved
C10_Witness ==
    \E n \in CallIds, m \in CallIds :
        /\ Issued(n) /\ hist[n].kind = "updateOrderStatus"
        /\ hist[n].arg.orderId \notin Ids(orders)
        /\ hist[n].state = "resolved" /\ ~hist[n].wrote /\ ~Published(n)
        /\ Issued(m) /\ hist[m].kind = "updateMenuItem"
        /\ hist[m].arg.item.id \notin Ids(menu)
        /\ hist[m].state = "resolved" /\ ~hist[m].wrote /\ ~Published(m)

\* ------------------------------------------------------------- the event bus alone
\* The services as constructed, with no subscriber yet (listeners = []); listeners
\* come and go while the status of an order is updated.
InitBus ==
    /\ orders = StoredOrders
    /\ menu = INITIAL_MENU
    /\ listeners = [c \in Ctx |-> <<>>]
    /\ now = DayMs - 1
    /\ customers = StoredCustomers
    /\ dash = NoDash
    /\ kiosk = NoKiosk
    /\ pos = NoPos
    /\ InitLoop
    /\ InitHistory
    /\ serial = [orders |-> orders, menu |-> menu]

\* the admin's forward button on a pending card: updateStatus(order.id, 'preparing')
CallStatusPreparing(c) ==
    StartCall(c, "updateOrderStatus", [orderId |-> 1000, status |-> "preparing"])

\* the status is updated from the admin's context (AdminDashboard.updateStatus is the
\* one caller of updateOrderStatus)
NextBus ==
    \/ CallStatusPreparing("admin")
    \/ \E c \in Ctx :
          \/ \E l \in Listeners : Subscribe(c, l)
          \/ \E l \in Listeners : Unsubscribe(c, l)
          \/ Steps(c)

SpecBus == InitBus /\ [][NextBus]_vars

\* the listeners subscribed in context c when call n's event was published
SubsAtPublish(c, n) == pubs[n].subs[c]

\* C1: one completed updateOrderStatus(orderId, status) of a stored order publishes
\* STATUS_UPDATE carrying {orderId, status}, and every listener is invoked with it in
\* the publishing context exactly once for each subscription it holds there at
\* publish time, never more.
C1_OncePerSubscription ==
    \A n \in CallIds :
        (Issued(n) /\ hist[n].kind = "updateOrderStatus" /\ hist[n].state = "resolved"
         /\ hist[n].arg.orderId \in Ids(hist[n].snap)) =>
            /\ Published(n)
            /\ pubs[n].ctx = hist[n].ctx
            /\ pubs[n].ev = Event("STATUS_UPDATE", [orderId |-> hist[n].arg.orderId,
                                                    status |-> hist[n].arg.status])
            /\ \A l \in AllListeners :
                  got[<<pubs[n].ctx, l, n>>] = Count(SubsAtPublish(pubs[n].ctx, n), l)

\* an update was published to two different listeners of the publishing context and
\* has also been handled by the other context
C1_Witness ==
    \E n \in CallIds :
        /\ Published(n) /\ hist[n].state = "resolved"
        /\ got[<<pubs[n].ctx, "L1", n>>] = 1
        /\ got[<<pubs[n].ctx, "L2", n>>] = 1
        /\ \E c \in Ctx : c # pubs[n].ctx /\ Handled(c, n)

NotInvoked(c, l, n) == got'[<<c, l, n>>] = got[<<c, l, n>>]

Waiting(c, n) == Cardinality({i \in 1..Len(channel[c]) : channel[c][i].pub = n})

\* C6: each publish is handed once to the listeners subscribed in the publisher's own
\* context and is posted once to every other context; no context handles the same
\* published event more than once, and the publisher's context gets no copy of it
\* through the channel.
C6_OncePerContext ==
    \A n \in CallIds, c \in Ctx :
        IF Published(n)
        THEN IF c = pubs[n].ctx
             THEN /\ Len(notified[<<c, n>>]) = 1
                  /\ notified[<<c, n>>][1] = SubsAtPublish(c, n)
                  /\ Waiting(c, n) = 0
                  /\ \A l \in AllListeners :
                        got[<<c, l, n>>] = Count(SubsAtPublish(c, n), l)
             ELSE /\ Len(notified[<<c, n>>]) + Waiting(c, n) = 1
                  /\ \A l \in AllListeners :
                        got[<<c, l, n>>] <= IF Handled(c, n)
                                            THEN Count(notified[<<c, n>>][1], l) ELSE 0
        ELSE Len(notified[<<c, n>>]) = 0 /\ Waiting(c, n) = 0

\* one event was handled in the publisher's context and in the other context, by a
\* listener in each
C6_Witness ==
    \E n \in CallIds, c \in Ctx :
        /\ Published(n) /\ c # pubs[n].ctx
        /\ got[<<pubs[n].ctx, "L1", n>>] = 1
        /\ got[<<c, "L1", n>>] = 1
        /\ Waiting(c, n) = 0


\* ------------------------------------------------------------- the admin dashboard
\* AdminDashboard is rendered for the first time: useState([]), useState(0); its
\* effect is due.
DashMount ==
    /\ ~dash.mounted
    /\ dash' = [NoDash EXCEPT !.mounted = TRUE, !.effect = TRUE]
    /\ UNCHANGED <<storeVars, busVars, loopVars, kiosk, pos, histVars>>

\* The effect runs (first render, or lastNotification changed): the previous run's
\* cleanup unsubscribes and clears the interval; loadOrders() is called, a new
\* subscriber is registered and setInterval(loadOrders, 10000) is armed.
DashEffect ==
    /\ dash.mounted /\ dash.effect
    /\ ~Blocked("admin")
    /\ QueueFree("admin")
    /\ timers' = [timers EXCEPT !["admin"] = Append(@, LoadCall("dash", NoData))]
    /\ listeners' = [listeners EXCEPT !["admin"] = Append(RemoveListener(@, "dash"), "dash")]
    /\ dash' = [dash EXCEPT !.effect = FALSE, !.interval = TRUE,
                            !.cap = dash.lastNotification]
    /\ UNCHANGED <<storeVars, channel, running, now, kiosk, pos, histVars>>

\* (mutant) the interval fires and reloads nothing
DashTimerIdle ==
    /\ dash.mounted /\ dash.interval
    /\ UNCHANGED vars

\* the interval fires: loadOrders()
DashTimer ==
    /\ dash.mounted /\ dash.interval
    /\ ~Blocked("admin")
    /\ QueueFree("admin")
    /\ timers' = [timers EXCEPT !["admin"] = Append(@, LoadCall("dash", NoData))]
    /\ UNCHANGED <<storeVars, busVars, running, now, uiVars, histVars>>

\* (mutant) the reload applies the orders as they were when the dashboard was opened
LoadOrdersOlder ==
    /\ ~Blocked("admin")
    /\ timers["admin"] # <<>>
    /\ Head(timers["admin"]).pc = "net2"
    /\ Head(timers["admin"]).by = "dash"
    /\ timers' = [timers EXCEPT !["admin"] = Tail(@)]
    /\ dash' = IF dash.mounted THEN [dash EXCEPT !.orders = GetOrders(StoredOrders)]
               ELSE dash
    /\ UNCHANGED <<storeVars, busVars, running, now, kiosk, pos, histVars>>

\* loadOrders resumes when getOrders()'s timeout fires: setOrders(allOrders), a full
\* replace of the local list by what the store holds now
LoadOrders ==
    /\ ~Blocked("admin")
    /\ timers["admin"] # <<>>
    /\ Head(timers["admin"]).pc = "net2"
    /\ Head(timers["admin"]).by = "dash"
    /\ timers' = [timers EXCEPT !["admin"] = Tail(@)]
    /\ dash' = IF dash.mounted THEN [dash EXCEPT !.orders = GetOrders(orders)] ELSE dash
    /\ UNCHANGED <<storeVars, busVars, running, now, kiosk, pos, histVars>>

\* ------------------------------------------------------------- the kiosk's order tracker
\* what localStorage 'hm_pos_active_order' may hold when the kiosk page is loaded:
\* nothing, the id of a stored order, the id of an order no longer stored
SavedActiveOrder == {0, 1000, 4000}

\* localStorage 'hm_pos_active_order' as text: order.id.toString(), or nothing (a
\* kiosk without an active order has the id 0 here, null in the code)
SavedText(id) == IF id = 0 THEN "" ELSE ToString(id)

\* CustomerKiosk is rendered for the first time: activeOrderId restored from
\* localStorage, activeOrder null; the tracking effect is due.
KioskMount ==
    /\ ~kiosk.mounted
    /\ \E saved \in SavedActiveOrder :
          kiosk' = [NoKiosk EXCEPT !.mounted = TRUE, !.activeOrderId = saved,
                                   !.effect = TRUE, !.saved = SavedText(saved)]
    /\ UNCHANGED <<storeVars, busVars, loopVars, dash, pos, histVars>>

\* The tracking effect runs (first render, or activeOrderId / activeOrder changed):
\* the previous run's cleanup unsubscribes; without an active order id it returns;
\* else checkStatus() is called and a subscriber is registered, both closed over
\* this render's activeOrderId and activeOrder.
KioskEffect ==
    /\ kiosk.mounted /\ kiosk.effect
    /\ ~Blocked("kiosk")
    /\ LET cap == [oid |-> kiosk.activeOrderId, prev |-> kiosk.activeOrder]
       IN  IF kiosk.activeOrderId = 0
           THEN /\ listeners' = [listeners EXCEPT
                                   !["kiosk"] = RemoveListener(@, "kioskTrack")]
                /\ kiosk' = [kiosk EXCEPT !.effect = FALSE]
                /\ UNCHANGED timers
           ELSE /\ QueueFree("kiosk")
                /\ timers' = [timers EXCEPT !["kiosk"] = Append(@, LoadCall("kiosk", cap))]
                /\ listeners' = [listeners EXCEPT !["kiosk"] =
                                   Append(RemoveListener(@, "kioskTrack"), "kioskTrack")]
                /\ kiosk' = [kiosk EXCEPT !.effect = FALSE, !.cap = cap]
    /\ UNCHANGED <<storeVars, channel, running, now, dash, pos, histVars>>

\* orders.find(o => o.id === activeOrderId)
FindOrder(os, id) == IF FindIndex(os, id) = 0 THEN NoOrder ELSE os[FindIndex(os, id)]

\* (mutant) the fresh order is stored without the tracking effect running again
CheckStatusOnce ==
    /\ ~Blocked("kiosk")
    /\ timers["kiosk"] # <<>>
    /\ Head(timers["kiosk"]).pc = "net2"
    /\ Head(timers["kiosk"]).by = "kiosk"
    /\ timers' = [timers EXCEPT !["kiosk"] = Tail(@)]
    /\ LET fresh == FindOrder(GetOrders(orders), Head(timers["kiosk"]).arg.oid)
       IN  kiosk' = IF fresh # NoOrder /\ kiosk.mounted /\ kiosk.activeOrder = NoOrder
                    THEN [kiosk EXCEPT !.activeOrder = fresh, !.effect = TRUE]
                    ELSE kiosk
    /\ UNCHANGED <<storeVars, busVars, running, now, dash, pos, histVars>>

\* (mutant) the ready alert is given whenever the fresh status is ready
StatusAlertsEveryReady(prev, fresh) ==
    IF prev = NoOrder THEN <<>>
    ELSE (IF prev.status = "pending" /\ fresh.status = "preparing"
          THEN <<"preparing">> ELSE <<>>)
         \o (IF fresh.status = "ready" THEN <<"ready">> ELSE <<>>)

\* The alerts checkStatus gives for the snapshot its closure holds and the fresh
\* order, each a playNotificationSound(kind) with an addNotification: none without a
\* snapshot, the soft one from pending to preparing, the prominent one from any
\* status but ready to ready.
StatusAlerts(prev, fresh) ==
    IF prev = NoOrder THEN <<>>
    ELSE (IF prev.status = "pending" /\ fresh.status = "preparing"
          THEN <<"preparing">> ELSE <<>>)
         \o (IF prev.status # "ready" /\ fresh.status = "ready"
             THEN <<"ready">> ELSE <<>>)

\* checkStatus resumes when getOrders()'s timeout fires: the order with the id its
\* closure holds is looked up and, when found, compared with the snapshot the closure
\* holds: the alerts of the transition are given, the ready one with
\* setIsTrackingMinimized(false); then setActiveOrder(freshOrder); the fresh object
\* differs from the one held, so the tracking effect is due again.
CheckStatus ==
    /\ ~Blocked("kiosk")
    /\ timers["kiosk"] # <<>>
    /\ Head(timers["kiosk"]).pc = "net2"
    /\ Head(timers["kiosk"]).by = "kiosk"
    /\ timers' = [timers EXCEPT !["kiosk"] = Tail(@)]
    /\ LET fresh == FindOrder(GetOrders(orders), Head(timers["kiosk"]).arg.oid)
           given == StatusAlerts(Head(timers["kiosk"]).arg.prev, fresh)
       IN  kiosk' = IF fresh # NoOrder /\ kiosk.mounted
                    THEN [kiosk EXCEPT
                            !.activeOrder = fresh, !.effect = TRUE,
                            !.alerts = @ \o given,
                            !.isTrackingMinimized =
                                IF \E i \in 1..Len(given) : given[i] = "ready"
                                THEN FALSE ELSE @]
                    ELSE kiosk
    /\ UNCHANGED <<storeVars, busVars, running, now, dash, pos, histVars>>

\* A message posted to a context that is not open to take it (the tab is closed or
\* loading when it is posted) is lost: the channel keeps nothing and retries nothing.
Drop(c) ==
    /\ channel[c] # <<>>
    /\ channel' = [channel EXCEPT ![c] = Tail(@)]
    /\ UNCHANGED <<storeVars, listeners, loopVars, uiVars, histVars>>

\* The dashboard in the admin's tab while a kiosk saves orders.
NextDash ==
    \/ DashMount
    \/ DashEffect
    \/ DashTimer
    \/ LoadOrders
    \/ CallSaveOrder("kiosk")
    \/ ResumeFirst("kiosk")
    \/ ResumeRead("kiosk")
    \/ WriteStep("kiosk")
    \/ PublishStep("kiosk")
    \/ Deliver("admin")
    \/ Drop("admin")

\* the tasks the admin tab's event loop has for the dashboard: a due effect, the
\* interval, a timeout that is due
DashTasks == DashEffect \/ DashTimer \/ LoadOrders

\* The admin tab's event loop keeps running the dashboard's tasks while there is one
\* to run; nothing is assumed of the kiosk or of the channel.
SpecDash == InitBus /\ [][NextDash]_vars /\ WF_vars(DashTasks)

\* The kiosk tracking an order while the admin changes order statuses.
NextKiosk ==
    \/ KioskMount
    \/ KioskEffect
    \/ CheckStatus
    \/ CallUpdateOrderStatus("admin")
    \/ ResumeFirst("admin")
    \/ ResumeRead("admin")
    \/ WriteStep("admin")
    \/ PublishStep("admin")
    \/ Deliver("kiosk")
    \/ Drop("kiosk")

\* the tasks the kiosk tab's event loop has for the tracker: a due effect, a timeout
\* that is due
KioskTasks == KioskEffect \/ CheckStatus

\* The kiosk tab's event loop keeps running the tracker's tasks while there is one to
\* run; nothing is assumed of the admin or of the channel.
SpecKiosk == InitBus /\ [][NextKiosk]_vars /\ WF_vars(KioskTasks)

\* the status the store holds for order id ("" when it holds no such order)
StoredStatus(id) ==
    IF FindIndex(orders, id) = 0 THEN "" ELSE orders[FindIndex(orders, id)].status

\* the event of call n was posted to context c and lost
Lost(c, n) == Published(n) /\ pubs[n].ctx # c /\ ~Handled(c, n) /\ Waiting(c, n) = 0

\* the ids of the orders the kiosk's context saves
SavedIds == {o.id : o \in OrderArgs}

\* C3: while the dashboard is mounted, every order the kiosk's context has saved to
\* the store eventually appears in the dashboard's local list, whether or not the
\* NEW_ORDER event reaches the dashboard.
C3_DashboardCatchesUp ==
    \A id \in SavedIds :
        (dash.mounted /\ id \in Ids(orders)) ~> (id \in Ids(dash.orders))

\* the NEW_ORDER event of a saved order was lost and the dashboard lists the order
C3_Witness ==
    \E n \in CallIds :
        /\ Lost("admin", n) /\ hist[n].kind = "saveOrder"
        /\ dash.mounted /\ dash.interval
        /\ hist[n].arg.order.id \in Ids(dash.orders)

\* C4: while the kiosk is mounted with an active order id whose order is in the
\* store, the status the store holds for that order eventually is the status the
\* kiosk holds for it (or the store's status has changed again), whether or not the
\* STATUS_UPDATE event reaches the kiosk.
C4_KioskCatchesUp ==
    \A id \in Ids(StoredOrders) \cap SavedActiveOrder, s \in {"pending"} \cup StatusArgs :
        (kiosk.mounted /\ kiosk.activeOrderId = id /\ StoredStatus(id) = s)
            ~> (StoredStatus(id) # s
                \/ (kiosk.activeOrder # NoOrder /\ kiosk.activeOrder.id = id
                    /\ kiosk.activeOrder.status = s))

\* the STATUS_UPDATE event of the tracked order was lost; the kiosk, which held the
\* order as pending at its last render, now holds the stored status
C4_Witness ==
    \E n \in CallIds :
        /\ Lost("kiosk", n) /\ hist[n].kind = "updateOrderStatus"
        /\ kiosk.mounted /\ kiosk.activeOrderId = hist[n].arg.orderId
        /\ kiosk.cap.prev # NoOrder /\ kiosk.cap.prev.status = "pending"
        /\ kiosk.activeOrder # NoOrder
        /\ kiosk.activeOrder.status = hist[n].arg.status
        /\ StoredStatus(kiosk.activeOrderId) = hist[n].arg.status

\* ------------------------------------------------------------- orders in the store
\* the orders as they were saved: those the store starts with and those a saveOrder
\* call has written, as the JSON text holds them
SavedForms ==
    Range(StoredOrders)
        \cup {JsonOrder(hist[n].arg.order) :
                 n \in {m \in CallIds : Issued(m) /\ hist[m].kind = "saveOrder" /\ hist[m].wrote}}

\* order o is saved order s, but for its status
SameButStatus(o, s) == o = [s EXCEPT !.status = o.status]

\* C11: whatever operations have run (new orders, status updates, clearing a day,
\* menu add / update / delete), every order in the store has the id, items (each
\* with its price and quantity), total, tableNumber, customerName and timestamp it
\* was saved with; only its status may differ.
C11_OrdersImmutable ==
    \A i \in 1..Len(orders) : \E s \in SavedForms : SameButStatus(orders[i], s)

\* the menu price of an item was changed, then the status of an order holding that
\* item was updated: the stored order still has the item at its old price
C11_Witness ==
    \E n \in CallIds, m \in CallIds :
        /\ Issued(n) /\ hist[n].kind = "updateMenuItem" /\ hist[n].wrote
        /\ Issued(m) /\ hist[m].kind = "updateOrderStatus" /\ hist[m].state = "resolved"
        /\ hist[m].wrote /\ n < m
        /\ \E i \in 1..Len(menu) : menu[i].id = 1 /\ menu[i].price = 3600
        /\ \E i \in 1..Len(orders) :
              /\ orders[i].id = hist[m].arg.orderId
              /\ orders[i].status = hist[m].arg.status
              /\ \E j \in 1..Len(orders[i].items) :
                    orders[i].items[j].id = 1 /\ orders[i].items[j].price = 3500

\* ------------------------------------------------------------- carts and checkout
\* r with property f set to v
With(r, f, v) == [k \in DOMAIN r \cup {f} |-> IF k = f THEN v ELSE r[k]]

\* cart.reduce((sum, item) => sum + item.price * item.quantity, 0)
RECURSIVE CartTotal(_)
CartTotal(cart) ==
    IF cart = <<>> THEN 0
    ELSE CartTotal(SubSeq(cart, 1, Len(cart) - 1))
         + cart[Len(cart)].price * cart[Len(cart)].quantity

\* Date.now() in a handler: the clock has moved on since the handler that ran before
Clock == now + nextCall

\* what the customer picks in the item modal: an item of the menu, no variation
\* (a variation would add to the price and to the instructions), one piece
KioskItemIds == {1}
VariationPrices == {0}
TableNumbers == {"T1"}

\* addToCartFromModal's newItem: {...selectedItem, price: adjustedPrice, quantity,
\* instructions, cartId}
KioskLine(item, extra) ==
    With(With(With([item EXCEPT !.price = item.price + extra],
                   "quantity", 1),
              "instructions", IF extra = 0 THEN "" ELSE "Size: Large"),
         "cartId", <<item.id, extra, item.price>>)

\* prev.findIndex(i => i.id === selectedItem.id && i.instructions === fullInstructions
\*                     && i.price === adjustedPrice), 0 if none
IdenticalIndex(cart, line) ==
    IF \E i \in 1..Len(cart) : cart[i].id = line.id /\ cart[i].instructions = line.instructions
                               /\ cart[i].price = line.price
    THEN CHOOSE i \in 1..Len(cart) :
            /\ cart[i].id = line.id /\ cart[i].instructions = line.instructions
            /\ cart[i].price = line.price
            /\ \A j \in 1..(i - 1) : ~(cart[j].id = line.id
                                       /\ cart[j].instructions = line.instructions
                                       /\ cart[j].price = line.price)
    ELSE 0

\* newCart[existingIndex].quantity += itemQuantity: the object itself is changed
AddQuantity(line, q) == [line EXCEPT !.quantity = @ + q]

\* a cart line replaced by a new object is no longer the one an order holds
Unshared(line) == [line EXCEPT !.shared = FALSE]

\* The orders of handleCheckout calls still awaiting saveOrder hold in `items` the very
\* objects of the cart ([...cart] copies the array, not its elements): a quantity
\* added to the cart's object cartId is added in them too
SharedAddQuantity(ts, cartId, q) ==
    [i \in DOMAIN ts |->
        IF ts[i].by = "kioskCheckout"
        THEN [ts[i] EXCEPT !.arg.order.items =
                [j \in DOMAIN @ |-> IF @[j].shared /\ @[j].cartId = cartId
                                    THEN AddQuantity(@[j], q) ELSE @[j]]]
        ELSE ts[i]]

\* the cart's object cartId is replaced by a new one (all of them: cartId <<>>)
SharedReplaced(ts, cartId) ==
    [i \in DOMAIN ts |->
        IF ts[i].by = "kioskCheckout"
        THEN [ts[i] EXCEPT !.arg.order.items =
                [j \in DOMAIN @ |-> IF cartId \in {<<>>, @[j].cartId}
                                    THEN Unshared(@[j]) ELSE @[j]]]
        ELSE ts[i]]

\* CustomerKiosk.addToCartFromModal: an identical line gets the quantity added in
\* place, else the new line is appended.  The item is taken from the menu as stored.
KioskAddToCart ==
    /\ kiosk.mounted
    /\ ~Blocked("kiosk")
    /\ \E i \in 1..Len(menu), extra \in VariationPrices :
          /\ menu[i].id \in KioskItemIds
          /\ LET line == KioskLine(menu[i], extra)
                 idx == IdenticalIndex(kiosk.cart, line)
             IN  IF idx # 0
                 THEN /\ kiosk.cart[idx].quantity + 1 <= MaxQty
                      /\ kiosk' = [kiosk EXCEPT !.cart[idx].quantity = @ + 1]
                      /\ timers' = [timers EXCEPT !["kiosk"] =
                                      SharedAddQuantity(@, kiosk.cart[idx].cartId, 1)]
                 ELSE /\ kiosk' = [kiosk EXCEPT !.cart = Append(@, line)]
                      /\ UNCHANGED timers
    /\ UNCHANGED <<storeVars, busVars, running, now, dash, pos, histVars>>

\* CustomerKiosk.updateQuantity(cartId, delta): the line becomes a new object with
\* quantity max(0, quantity + delta); lines at 0 are dropped
KioskUpdateQuantity ==
    /\ kiosk.mounted
    /\ ~Blocked("kiosk")
    /\ \E idx \in 1..Len(kiosk.cart), delta \in {-1, 1} :
          LET q == IF kiosk.cart[idx].quantity + delta < 0 THEN 0
                   ELSE kiosk.cart[idx].quantity + delta
          IN  /\ q <= MaxQty
              /\ kiosk' = [kiosk EXCEPT !.cart =
                             SelectSeq([@ EXCEPT ![idx].quantity = q],
                                       LAMBDA l : l.quantity > 0)]
              /\ timers' = [timers EXCEPT !["kiosk"] =
                              SharedReplaced(@, kiosk.cart[idx].cartId)]
    /\ UNCHANGED <<storeVars, busVars, running, now, dash, pos, histVars>>

\* the order CustomerKiosk.handleCheckout builds
KioskOrder(table) ==
    [id |-> Clock, timestamp |-> Clock, tableNumber |-> table, customerName |-> "Mo",
     customerId |-> "CUST-1000",
     items |-> [i \in DOMAIN kiosk.cart |-> With(kiosk.cart[i], "shared", TRUE)],
     total |-> CartTotal(kiosk.cart), status |-> "pending"]

\* CustomerKiosk.handleCheckout with a user signed in, a table number and a cart that
\* is not empty, up to `await dbService.saveOrder(order)`
KioskCheckout ==
    /\ kiosk.mounted
    /\ kiosk.cart # <<>>
    /\ \E table \in TableNumbers :
          StartCallBy("kiosk", "saveOrder", [order |-> KioskOrder(table)],
                      "kioskCheckout", "net1")

\* ... and after it: setActiveOrderId(order.id), localStorage.setItem(
\* 'hm_pos_active_order', order.id), setActiveOrder(order),
\* setIsTrackingMinimized(false), setCart([])
KioskCheckoutDone ==
    /\ running["kiosk"] # NoCall
    /\ running["kiosk"].pc = "published"
    /\ running["kiosk"].by = "kioskCheckout"
    /\ kiosk' = [kiosk EXCEPT !.activeOrderId = running["kiosk"].arg.order.id,
                              !.activeOrder = JsonOrder(running["kiosk"].arg.order),
                              !.effect = TRUE,
                              !.cart = <<>>,
                              !.isTrackingMinimized = FALSE,
                              !.saved = SavedText(running["kiosk"].arg.order.id)]
    /\ timers' = [timers EXCEPT !["kiosk"] = SharedReplaced(@, <<>>)]
    /\ running' = [running EXCEPT !["kiosk"] = NoCall]
    /\ UNCHANGED <<storeVars, busVars, now, dash, pos, histVars>>

PosItemIds == {3}

\* OrderSystem.addToCart(item): a line of that id gets quantity + 1 (a new object),
\* else {...item, quantity: 1} is appended
PosAddToCart ==
    /\ ~Blocked("admin")
    /\ \E i \in 1..Len(menu) :
          /\ menu[i].id \in PosItemIds
          /\ LET idx == FindIndex(pos.cart, menu[i].id)
             IN  IF idx # 0
                 THEN /\ pos.cart[idx].quantity + 1 <= MaxQty
                      /\ pos' = [pos EXCEPT !.cart[idx].quantity = @ + 1]
                 ELSE pos' = [pos EXCEPT !.cart = Append(@, With(menu[i], "quantity", 1))]
    /\ UNCHANGED <<storeVars, busVars, loopVars, dash, kiosk, histVars>>

\* OrderSystem.updateQuantity(itemId, delta)
PosUpdateQuantity ==
    /\ ~Blocked("admin")
    /\ \E idx \in 1..Len(pos.cart), delta \in {-1, 1} :
          LET q == IF pos.cart[idx].quantity + delta < 0 THEN 0
                   ELSE pos.cart[idx].quantity + delta
          IN  /\ q <= MaxQty
              /\ pos' = [pos EXCEPT !.cart =
                           SelectSeq([@ EXCEPT ![idx].quantity = q],
                                     LAMBDA l : l.quantity > 0)]
    /\ UNCHANGED <<storeVars, busVars, loopVars, dash, kiosk, histVars>>

\* the order OrderSystem.handleCheckout builds
PosOrder(table) ==
    [id |-> Clock, timestamp |-> Clock, tableNumber |-> table, customerName |-> "Guest",
     items |-> pos.cart, total |-> CartTotal(pos.cart), status |-> "completed"]

\* OrderSystem.handleCheckout with a table number and a cart that is not empty, up to
\* `await dbService.saveOrder(order)`
PosCheckout ==
    /\ pos.cart # <<>>
    /\ \E table \in TableNumbers :
          StartCallBy("admin", "saveOrder", [order |-> PosOrder(table)],
                      "posCheckout", "net1")

\* ... and after it: onOrderComplete(order), setCart([])
PosCheckoutDone ==
    /\ running["admin"] # NoCall
    /\ running["admin"].pc = "published"
    /\ running["admin"].by = "posCheckout"
    /\ pos' = [pos EXCEPT !.cart = <<>>]
    /\ running' = [running EXCEPT !["admin"] = NoCall]
    /\ UNCHANGED <<storeVars, busVars, timers, now, dash, kiosk, histVars>>

\* the admin's menu form saves a new price for an item
CallUpdatePrice(c) ==
    StartCall(c, "updateMenuItem", [item |-> MkItem(3, 3600)])

\* The kiosk page is open, nothing in its cart.
InitCheckout ==
    /\ orders = StoredOrders
    /\ menu = INITIAL_MENU
    /\ customers = StoredCustomers
    /\ listeners = [c \in Ctx |-> <<>>]
    /\ now = DayMs - 1
    /\ dash = NoDash
    /\ kiosk = [NoKiosk EXCEPT !.mounted = TRUE]
    /\ pos = NoPos
    /\ InitLoop
    /\ InitHistory
    /\ serial = [orders |-> orders, menu |-> menu]

\* A customer at the kiosk fills the cart and checks out.
NextCheckout ==
    \/ KioskAddToCart
    \/ KioskUpdateQuantity
    \/ KioskCheckout
    \/ KioskCheckoutDone
    \/ \E c \in Ctx : Steps(c)

SpecCheckout == InitCheckout /\ [][NextCheckout]_vars

\* Staff at the order system fill the cart and check out; the admin changes a price.
NextPos ==
    \/ PosAddToCart
    \/ PosUpdateQuantity
    \/ PosCheckout
    \/ PosCheckoutDone
    \/ CallUpdatePrice("admin")
    \/ OwnSteps("admin")

SpecPos == InitCheckout /\ [][NextPos]_vars

\* ------------------------------------------------------------- C12
\* C12: every order enters the store with status pending: no checkout saves a new
\* order with another initial status.
C12_SavedPending ==
    \A n \in CallIds :
        Issued(n) /\ hist[n].kind = "saveOrder" /\ hist[n].wrote
            => /\ hist[n].arg.order.status = "pending"
               /\ \A i \in 1..Len(orders) :
                     orders[i].id = hist[n].arg.order.id /\ lastWrite.orders = n
                         => orders[i].status = "pending"

\* ------------------------------------------------------------- status transitions
\* the status buttons of the dashboard: any status for the order
CallSetStatus(c) ==
    \E s \in Status : StartCall(c, "updateOrderStatus", [orderId |-> 1000, status |-> s])

\* The store holds two pending orders; the first is taken through the states.
InitStatus ==
    /\ orders = StoredOrders
    /\ menu = INITIAL_MENU
    /\ customers = StoredCustomers
    /\ listeners = [c \in Ctx |-> <<"L1">>]
    /\ now = DayMs - 1
    /\ dash = NoDash
    /\ kiosk = NoKiosk
    /\ pos = NoPos
    /\ InitLoop
    /\ InitHistory
    /\ serial = [orders |-> orders, menu |-> menu]

\* The admin sets the status of the order, again and again.
NextStatus ==
    \/ CallSetStatus("admin")
    \/ \E c \in Ctx : Steps(c)

SpecStatus == InitStatus /\ [][NextStatus]_vars

\* the status order id had in the collection snap
StatusIn(snap, id) == snap[FindIndex(snap, id)].status

\* C13: updateOrderStatus rejects no transition: whatever status the order it finds
\* has and whatever status is asked for, the call writes the order with the status
\* asked for and publishes STATUS_UPDATE with that id and status.
C13_AnyTransition ==
    /\ \A c \in Ctx :
          (running[c] # NoCall /\ running[c].kind = "updateOrderStatus"
           /\ running[c].pc = "wrote" /\ lastWrite.orders = running[c].n)
              => StoredStatus(running[c].arg.orderId) = running[c].arg.status
    /\ \A n \in CallIds :
          (Issued(n) /\ hist[n].kind = "updateOrderStatus" /\ hist[n].state = "resolved"
           /\ hist[n].arg.orderId \in Ids(hist[n].snap))
              => /\ hist[n].wrote
                 /\ Published(n)
                 /\ pubs[n].ev = Event("STATUS_UPDATE", [orderId |-> hist[n].arg.orderId,
                                                         status |-> hist[n].arg.status])
                 /\ lastWrite.orders = n
                        => StoredStatus(hist[n].arg.orderId) = hist[n].arg.status

\* a completed order has been set back to pending, and a cancelled one to ready
C13_Witness ==
    \E n \in CallIds :
        /\ Issued(n) /\ hist[n].kind = "updateOrderStatus" /\ hist[n].state = "resolved"
        /\ hist[n].wrote /\ Published(n) /\ lastWrite.orders = n
        /\ StatusIn(hist[n].snap, 1000) = "completed"
        /\ hist[n].arg.status = "pending"
        /\ StoredStatus(1000) = "pending"

\* ------------------------------------------------------------- reading the orders
\* The orders a context saves and reads back: one between the stored ones, one with
\* the timestamp of a stored one and no customerId (a guest's order).
StoreOrderArgs ==
    {MkOrder(2000, 2000, "pending"),
     With([MkOrder(3000, 1000, "ready") EXCEPT !.total = 7500,
                                               !.items = <<CartLine(1, 3500, 1), CartLine(3, 4000, 1)>>],
          "customerId", Undefined)}

\* the days asked for: the first day and the day after it
StoreDates == {1000, DayMs}

\* The store after three checkouts: the first day's first and last millisecond but
\* one, and the first millisecond of the next day, in the order the saves left them.
StoreOrders ==
    <<MkOrder(DayMs - 1, DayMs - 1, "pending"), MkOrder(1000, 1000, "completed"),
      MkOrder(DayMs, DayMs, "pending")>>

InitStore ==
    /\ orders = StoreOrders
    /\ menu = INITIAL_MENU
    /\ customers = StoredCustomers
    /\ listeners = [c \in Ctx |-> <<>>]
    /\ now = DayMs
    /\ dash = NoDash
    /\ kiosk = NoKiosk
    /\ pos = NoPos
    /\ InitLoop
    /\ InitHistory
    /\ serial = [orders |-> orders, menu |-> menu]

CallSaveOrderOf(c) ==
    \E o \in StoreOrderArgs : StartCall(c, "saveOrder", [order |-> o])

\* getOrders() has one suspension, its own
CallGetOrders(c) == StartCallBy(c, "getOrders", NoData, "api", "net2")

\* Reports.loadReport
CallGetOrdersByDate(c) ==
    \E d \in StoreDates : StartCall(c, "getOrdersByDate", [date |-> d])

\* Reports.handleClearHistory
CallClearOrdersOf(c) ==
    \E d \in StoreDates : StartCall(c, "clearOrdersByDate", [date |-> d])

\* One context saves orders, reads them back, all or by date, and clears a date.
NextStore ==
    \/ CallSaveOrderOf("admin")
    \/ CallGetOrders("admin")
    \/ CallGetOrdersByDate("admin")
    \/ CallClearOrdersOf("admin")
    \/ OwnSteps("admin")

SpecStore == InitStore /\ [][NextStore]_vars

\* the properties of an order and of its items
OrderFields ==
    {"id", "timestamp", "tableNumber", "customerName", "customerId", "total", "status"}
ItemFields == {"id", "name", "price", "category", "quantity", "instructions"}

\* reading any property of `read` gives what reading it of `o` gives
SameFields(read, o) ==
    /\ \A f \in OrderFields : Field(read, f) = Field(o, f)
    /\ Len(read.items) = Len(o.items)
    /\ \A i \in 1..Len(o.items) :
          \A f \in ItemFields : Field(read.items[i], f) = Field(o.items[i], f)

\* the call at the head of c's timers reads now and returns what it read
Returns(c, kind) == ReturnsAtRead(c, kind) /\ Head(timers[c]).by = "api"

\* what that call returns
Returned(c) == hist'[Head(timers[c]).n].ret

\* C14: in one context, a getOrders() that reads after saveOrder(o) has completed (and
\* before any later write) returns o with every field as it was given, together with
\* every order that was there before the save.
C14_SavedThenRead ==
    [][\A c \in Ctx :
          Returns(c, "getOrders") =>
              \A n \in CallIds :
                  (Issued(n) /\ hist[n].kind = "saveOrder" /\ hist[n].state = "resolved"
                   /\ lastWrite.orders = n)
                      => /\ \E i \in 1..Len(Returned(c)) :
                                SameFields(Returned(c)[i], hist[n].arg.order)
                         /\ \A x \in Range(hist[n].snap) :
                                Count(Returned(c), x) >= Count(hist[n].snap, x)
                         /\ Len(Returned(c)) = Len(hist[n].snap) + 1]_vars

\* a guest's order (no customerId) was saved and a getOrders() after it returned it
\* among the three orders stored before
C14_Witness ==
    \E n \in CallIds, m \in CallIds :
        /\ Issued(n) /\ hist[n].kind = "saveOrder" /\ hist[n].state = "resolved"
        /\ Field(hist[n].arg.order, "customerId") = Undefined
        /\ "customerId" \in DOMAIN hist[n].arg.order
        /\ Issued(m) /\ hist[m].kind = "getOrders" /\ hist[m].state = "resolved"
        /\ Len(hist[m].ret) = 4
        /\ \E i \in 1..4 : /\ SameFields(hist[m].ret[i], hist[n].arg.order)
                           /\ "customerId" \notin DOMAIN hist[m].ret[i]

\* s is in descending order of timestamp
Descending(s) == \A i \in 1..(Len(s) - 1) : s[i].timestamp >= s[i + 1].timestamp

\* a and b hold the same elements, each as many times
SameElements(a, b) ==
    /\ Len(a) = Len(b)
    /\ \A x \in Range(a) \cup Range(b) : Count(a, x) = Count(b, x)

\* C15: getOrders() returns exactly the stored orders, sorted by timestamp descending,
\* in whatever order they were saved and are stored.
C15_SortedDescending ==
    [][\A c \in Ctx :
          Returns(c, "getOrders") =>
              /\ SameElements(Returned(c), orders)
              /\ Descending(Returned(c))
              /\ orders' = orders]_vars

\* a getOrders() has returned the four orders of the store, which holds them in
\* another order: the newest three first, then the one saved last
C15_Witness ==
    \E m \in CallIds :
        /\ Issued(m) /\ hist[m].kind = "getOrders" /\ hist[m].state = "resolved"
        /\ Len(hist[m].ret) = 4
        /\ hist[m].ret # orders
        /\ ~Descending(orders)
        /\ SameElements(hist[m].ret, orders)
        /\ orders[4].timestamp > orders[3].timestamp

\* the orders of s whose timestamp is in day d: not before its first millisecond, not
\* after its last
InDay(s, d) == SelectSeq(s, LAMBDA o : StartOfDay(d) <= o.timestamp /\ o.timestamp <= EndOfDay(d))

\* C16: getOrdersByDate(d) returns exactly the stored orders whose timestamp is in the
\* inclusive window from the start of day d to its end (the last millisecond of d is
\* in, the first of the next day is out), and leaves the store as it is.
C16_InclusiveDay ==
    [][\A c \in Ctx :
          Returns(c, "getOrdersByDate") =>
              /\ SameElements(Returned(c), InDay(orders, Head(timers[c]).arg.date))
              /\ \A x \in Range(orders) :
                    /\ x.timestamp = DayMs - 1 /\ Head(timers[c]).arg.date = 1000
                          => x \in Range(Returned(c))
                    /\ x.timestamp = DayMs /\ Head(timers[c]).arg.date = 1000
                          => x \notin Range(Returned(c))
              /\ orders' = orders]_vars

\* getOrdersByDate of the first day has returned the order of its last millisecond
\* and not the stored order of the millisecond after
C16_Witness ==
    \E m \in CallIds :
        /\ Issued(m) /\ hist[m].kind = "getOrdersByDate" /\ hist[m].state = "resolved"
        /\ hist[m].arg.date = 1000
        /\ \E i \in 1..Len(hist[m].ret) : hist[m].ret[i].timestamp = DayMs - 1
        /\ \E i \in 1..Len(orders) : orders[i].timestamp = DayMs
        /\ \A i \in 1..Len(hist[m].ret) : hist[m].ret[i].timestamp # DayMs

\* the step in which context c's running clearOrdersByDate writes the collection back
ClearWrite(c) ==
    /\ running[c] # NoCall
    /\ running[c].pc = "read"
    /\ running[c].kind = "clearOrdersByDate"
    /\ running'[c] # NoCall
    /\ running'[c].pc = "wrote"

\* C17: clearOrdersByDate(d) removes exactly the orders getOrdersByDate(d) would
\* return, leaves every other order as it is, and returns how many it removed.
C17_ClearsTheDay ==
    [][\A c \in Ctx :
          /\ ClearWrite(c) =>
                /\ \A x \in Range(orders) \cup Range(orders') :
                      Count(orders', x) =
                          IF x \in Range(GetOrdersByDateResult(GetOrders(orders), running[c].arg.date))
                          THEN 0 ELSE Count(orders, x)
                /\ Len(orders') =
                      Len(orders) - Len(GetOrdersByDateResult(GetOrders(orders), running[c].arg.date))
          /\ (running[c] # NoCall /\ running[c].kind = "clearOrdersByDate"
              /\ running[c].pc = "wrote" /\ running'[c] = NoCall)
                => hist'[running[c].n].ret =
                      Len(GetOrdersByDateResult(running[c].snap, running[c].arg.date))]_vars

\* clearOrdersByDate of the first day has returned 2, and the store holds the order
\* of the next day's first millisecond and none of the first day
C17_Witness ==
    \E n \in CallIds :
        /\ Issued(n) /\ hist[n].kind = "clearOrdersByDate" /\ hist[n].state = "resolved"
        /\ hist[n].arg.date = 1000
        /\ hist[n].ret = 2
        /\ lastWrite.orders = n
        /\ Len(orders) = 1
        /\ orders[1].timestamp = DayMs

\* ------------------------------------------------------------- C18
\* C18: every stored order has total = the sum of price * quantity over its items,
\* whichever checkout saved it.
C18_TotalIsSum ==
    \A i \in 1..Len(orders) : orders[i].total = CartTotal(orders[i].items)

\* ------------------------------------------------------------- registering a customer
\* the phone numbers typed into the registration form: the stored customer's and two new
PhoneArgs == {"0911", "0922", "0933"}

\* the form's data (Omit<Customer, 'id'>)
RegisterData(phone) == [name |-> "Su", phone |-> phone, address |-> "B", password |-> "pw2"]

\* `CUST-${Date.now()}` at time t
RegisterId(t) == "CUST-" \o ToString(t)

\* (mutant) no check of the phone
RegisterFoundNever(snap, data) == FALSE

\* (mutant) the check is loginCustomer's: phone and password
RegisterFoundLogin(snap, data) ==
    \E i \in 1..Len(snap) : snap[i].phone = data.phone /\ snap[i].password = data.password

\* customers.find(c => c.phone === customerData.phone)
RegisterFound(snap, data) == \E i \in 1..Len(snap) : snap[i].phone = data.phone

\* customers.push({...customerData, id})
RegisterResult(snap, data, id) == Append(snap, With(data, "id", id))

PhoneError == [error |-> "Phone number already registered."]

\* CustomerKiosk.handleAuthSubmit in register mode: dbService.registerCustomer(form),
\* suspended in its one simulateNetwork()
CallRegister(c) ==
    \E ph \in PhoneArgs :
        StartCallBy(c, "registerCustomer", [data |-> RegisterData(ph)], "auth", "net2")

\* The timeout fires: registerCustomer parses the stored customers and looks for the
\* phone; it throws if it is there.
RegisterRead(c) ==
    /\ ~Blocked(c)
    /\ timers[c] # <<>>
    /\ Head(timers[c]).pc = "net2"
    /\ Head(timers[c]).by = "auth"
    /\ Head(timers[c]).kind = "registerCustomer"
    /\ LET k == Head(timers[c])
       IN  /\ timers' = [timers EXCEPT ![c] = Tail(@)]
           /\ IF RegisterFound(Parse(customers), k.arg.data)
              THEN /\ hist' = [hist EXCEPT ![k.n].state = "rejected",
                                            ![k.n].snap = Parse(customers),
                                            ![k.n].ret = PhoneError]
                   /\ UNCHANGED running
              ELSE /\ running' = [running EXCEPT ![c] =
                          [n |-> k.n, kind |-> k.kind, arg |-> k.arg, pc |-> "found none",
                           snap |-> Parse(customers), by |-> k.by]]
                   /\ hist' = [hist EXCEPT ![k.n].state = "running", ![k.n].snap = Parse(customers)]
    /\ UNCHANGED <<storeVars, busVars, now, uiVars, nextCall, pubs, got, notified,
                   unsubbed, subCalls, lastWrite, serial>>

\* ... else it pushes the new customer, writes the collection and returns the customer
\* (no event is published)
RegisterWrite(c) ==
    /\ running[c] # NoCall
    /\ running[c].pc = "found none"
    /\ LET k == running[c]
           new == RegisterResult(k.snap, k.arg.data, RegisterId(now))
       IN  /\ customers' = JsonRecords(new)
           /\ hist' = [hist EXCEPT ![k.n].state = "resolved", ![k.n].wrote = TRUE,
                                    ![k.n].ret = new[Len(new)]]
    /\ running' = [running EXCEPT ![c] = NoCall]
    /\ UNCHANGED <<orders, menu, busVars, timers, now, uiVars, nextCall, pubs, got,
                   notified, unsubbed, subCalls, lastWrite, serial>>

\* Customers register at kiosks in two contexts, in the same millisecond or later.
NextCustomers ==
    \/ \E c \in Ctx : CallRegister(c) \/ RegisterRead(c) \/ RegisterWrite(c)
    \/ Tick

SpecCustomers == Init /\ [][NextCustomers]_vars

Phones(cs) == {cs[i].phone : i \in 1..Len(cs)}

\* the step in which the registerCustomer at the head of c's timers runs its check
RegisterChecks(c) ==
    /\ ~Blocked(c)
    /\ timers[c] # <<>>
    /\ Head(timers[c]).kind = "registerCustomer"
    /\ timers'[c] = Tail(timers[c])

\* C19: registerCustomer with a phone that a stored customer has fails with the
\* duplicate-phone error, and the customers collection is exactly as before the call.
C19_DuplicateRejected ==
    [][\A c \in Ctx :
          (RegisterChecks(c) /\ Head(timers[c]).arg.data.phone \in Phones(customers))
              => /\ customers' = customers
                 /\ hist'[Head(timers[c]).n].state = "rejected"
                 /\ hist'[Head(timers[c]).n].ret = PhoneError
                 /\ ~hist'[Head(timers[c]).n].wrote
                 /\ running'[c] = NoCall]_vars

\* a phone was registered, and a second registration of it has failed with the error,
\* the collection holding the two customers it held before
C19_Witness ==
    \E n \in CallIds, m \in CallIds :
        /\ Issued(n) /\ hist[n].kind = "registerCustomer" /\ hist[n].state = "resolved"
        /\ Issued(m) /\ hist[m].kind = "registerCustomer" /\ hist[m].state = "rejected"
        /\ hist[m].arg.data.phone = hist[n].arg.data.phone
        /\ hist[m].ret = PhoneError
        /\ customers = hist[m].snap
        /\ Len(customers) = 2

\* C20: no two stored customers have the same phone, however registrations from one
\* context or from two run together.
C20_PhonesUnique ==
    \A i \in 1..Len(customers), j \in 1..Len(customers) :
        customers[i].phone = customers[j].phone => i = j

\* two registrations of one new phone, from two contexts, have both found the phone
\* free and both returned a customer; the store holds one of them
C20_Witness ==
    \E n \in CallIds, m \in CallIds :
        /\ n # m
        /\ Issued(n) /\ hist[n].kind = "registerCustomer" /\ hist[n].state = "resolved"
        /\ Issued(m) /\ hist[m].kind = "registerCustomer" /\ hist[m].state = "resolved"
        /\ hist[n].ctx # hist[m].ctx
        /\ hist[n].arg.data.phone = hist[m].arg.data.phone
        /\ Len(customers) = 2

\* ------------------------------------------------------------- C21
\* C21: every successful registerCustomer returns a customer whose id differs from the
\* id every other successful registerCustomer returned, whatever the timing.
C21_DistinctIds ==
    \A n \in CallIds, m \in CallIds :
        (/\ n # m
         /\ Issued(n) /\ hist[n].kind = "registerCustomer" /\ hist[n].state = "resolved"
         /\ Issued(m) /\ hist[m].kind = "registerCustomer" /\ hist[m].state = "resolved")
            => hist[n].ret.id # hist[m].ret.id

\* ------------------------------------------------------------- the menu
\* the items the admin's form saves: an item of the menu with a new price and no
\* image, and an item that is not in the menu
MenuFormArgs == {With(MkItem(2, 6000), "image", Undefined), MkItem(9, 3600)}

\* MenuManager.handleSubmit for an item that has an id
CallUpdateItemOf(c) ==
    \E item \in MenuFormArgs : StartCall(c, "updateMenuItem", [item |-> item])

\* getMenu() has one suspension, its own
CallGetMenu(c) == StartCallBy(c, "getMenu", NoData, "api", "net2")

\* The admin edits the menu and reads it back, in the same millisecond or later; both
\* contexts have subscribers.
NextMenu ==
    \/ CallAddMenuItem("admin")
    \/ CallUpdateItemOf("admin")
    \/ CallDeleteMenuItem("admin")
    \/ CallGetMenu("admin")
    \/ \E c \in Ctx : Steps(c)
    \/ Tick

SpecMenu == Init /\ [][NextMenu]_vars

\* C22: after any sequence of addMenuItem calls, with any timing, on the seeded menu,
\* the ids of the menu are pairwise distinct.
C22_MenuIdsDistinct ==
    \A i \in 1..Len(menu), j \in 1..Len(menu) : menu[i].id = menu[j].id => i = j

\* the properties of a menu item
MenuFields == {"id", "name", "price", "category", "image", "description"}

\* the entry read has the properties of item, each with item's value, and no other
SameItem(read, item) ==
    /\ \A f \in MenuFields : Field(read, f) = Field(item, f)
    /\ DOMAIN read \subseteq DOMAIN item

\* C23: a getMenu() that reads after updateMenuItem(item) has found the id and
\* completed (and before any later write) returns a menu in which the entry of that
\* id equals item, at the position it had, and every other item is the same at the
\* same position.
C23_UpdateInPlace ==
    [][\A c \in Ctx :
          Returns(c, "getMenu") =>
              \A n \in CallIds :
                  (Issued(n) /\ hist[n].kind = "updateMenuItem" /\ hist[n].state = "resolved"
                   /\ hist[n].wrote /\ lastWrite.menu = n)
                      => LET i == FindIndex(hist[n].snap, hist[n].arg.item.id)
                         IN  /\ Len(Returned(c)) = Len(hist[n].snap)
                             /\ SameItem(Returned(c)[i], hist[n].arg.item)
                             /\ \A j \in 1..Len(hist[n].snap) :
                                   j # i => Returned(c)[j] = hist[n].snap[j]]_vars

\* the second item of the menu was updated with a new price and no image, and a
\* getMenu() after it returned that item second of three
C23_Witness ==
    \E n \in CallIds, m \in CallIds :
        /\ Issued(n) /\ hist[n].kind = "updateMenuItem" /\ hist[n].state = "resolved"
        /\ hist[n].wrote
        /\ Field(hist[n].arg.item, "image") = Undefined
        /\ Issued(m) /\ hist[m].kind = "getMenu" /\ hist[m].state = "resolved"
        /\ Len(hist[m].ret) = 3
        /\ hist[m].ret[2].id = 2 /\ hist[m].ret[2].price = 6000
        /\ "image" \notin DOMAIN hist[m].ret[2]
        /\ hist[m].ret[1] = INITIAL_MENU[1] /\ hist[m].ret[3] = INITIAL_MENU[3]

\* the step in which context c's running deleteMenuItem writes the menu back
DeleteWrite(c) ==
    /\ running[c] # NoCall
    /\ running[c].pc = "read"
    /\ running[c].kind = "deleteMenuItem"
    /\ running'[c] # NoCall
    /\ running'[c].pc = "wrote"

\* the items of s but those of that id, in their order
Without(s, id) == SelectSeq(s, LAMBDA x : x.id # id)

\* C24: deleteMenuItem(id) leaves the menu without any item of that id and with every
\* other item as it was; a getMenu() after it returns no item of that id; and a
\* second deleteMenuItem(id) leaves the menu as the first one left it.
C24_DeleteIdempotent ==
    [][\A c \in Ctx :
          /\ DeleteWrite(c) =>
                /\ running[c].arg.id \notin Ids(menu')
                /\ menu' = Without(menu, running[c].arg.id)
                /\ running[c].arg.id \notin Ids(menu) => menu' = menu
          /\ Returns(c, "getMenu") =>
                \A n \in CallIds :
                    (Issued(n) /\ hist[n].kind = "deleteMenuItem"
                     /\ hist[n].state = "resolved" /\ lastWrite.menu = n)
                        => /\ hist[n].arg.id \notin Ids(Returned(c))
                           /\ Returned(c) = Without(hist[n].snap, hist[n].arg.id)]_vars

\* the second item was deleted twice: the second call found the menu without it and
\* left the two other items
C24_Witness ==
    \E n \in CallIds, m \in CallIds :
        /\ n # m
        /\ Issued(n) /\ hist[n].kind = "deleteMenuItem" /\ hist[n].state = "resolved"
        /\ Issued(m) /\ hist[m].kind = "deleteMenuItem" /\ hist[m].state = "resolved"
        /\ hist[n].arg.id = 2 /\ hist[m].arg.id = 2
        /\ Len(hist[n].snap) = 3 /\ Len(hist[m].snap) = 2
        /\ lastWrite.menu = m
        /\ menu = hist[m].snap
        /\ menu = <<INITIAL_MENU[1], INITIAL_MENU[3]>>

\* C25: deleteMenuItem with an id that is not in the menu changes nothing and no
\* event is delivered to any subscriber.
C25_UnknownDeleteSilent ==
    \A n \in CallIds :
        (Issued(n) /\ hist[n].kind = "deleteMenuItem" /\ hist[n].state = "resolved"
         /\ hist[n].arg.id \notin Ids(hist[n].snap))
            => /\ ~Published(n)
               /\ \A c \in Ctx, l \in AllListeners : got[<<c, l, n>>] = 0

\* ------------------------------------------------------------- init()
\* the keys init() looks at, in its order, and what it writes under a key
InitKeys == <<"menu", "orders", "customers">>

Seed(key) == IF key = "menu" THEN JsonRecords(INITIAL_MENU) ELSE <<>>

StoreOf(key) ==
    CASE key = "menu" -> menu
      [] key = "orders" -> orders
      [] key = "customers" -> customers

\* (mutant) a collection that is empty is taken for one that was never written
InitNeededEmpty(text) == text = NotWritten \/ text = <<>>

\* !localStorage.getItem(KEY): the key was never written (the text of a collection is
\* never the empty string)
InitNeeded(text) == text = NotWritten

\* App's mount effect calls dbService.init(): it runs without a suspension, so nothing
\* else runs in its context until it is through.  absent0: the keys not written when it
\* was called; seeded: the keys it has written.
StartInit(c) ==
    /\ ~Blocked(c)
    /\ running' = [running EXCEPT ![c] =
                     [n |-> 0, kind |-> "init", arg |-> NoData, pc |-> "check", key |-> 1,
                      by |-> "app",
                      absent0 |-> {k \in Range(InitKeys) : StoreOf(k) = NotWritten},
                      seeded |-> {}]]
    /\ UNCHANGED <<storeVars, busVars, timers, now, uiVars, histVars>>

\* what is left of init() after key number i
InitAfter(r, i) ==
    IF i < Len(InitKeys) THEN [r EXCEPT !.pc = "check", !.key = i + 1] ELSE NoCall

\* if (!localStorage.getItem(KEY)) ...
InitCheck(c) ==
    /\ running[c] # NoCall
    /\ running[c].kind = "init"
    /\ running[c].pc = "check"
    /\ running' = [running EXCEPT ![c] =
                     IF InitNeeded(StoreOf(InitKeys[running[c].key]))
                     THEN [running[c] EXCEPT !.pc = "seed"]
                     ELSE InitAfter(running[c], running[c].key)]
    /\ UNCHANGED <<storeVars, busVars, timers, now, uiVars, histVars>>

\* ... localStorage.setItem(KEY, JSON.stringify(INITIAL_MENU or []))
InitSeed(c) ==
    /\ running[c] # NoCall
    /\ running[c].kind = "init"
    /\ running[c].pc = "seed"
    /\ LET key == InitKeys[running[c].key]
       IN  /\ menu' = IF key = "menu" THEN Seed(key) ELSE menu
           /\ orders' = IF key = "orders" THEN Seed(key) ELSE orders
           /\ customers' = IF key = "customers" THEN Seed(key) ELSE customers
           /\ serial' = IF key \in DOMAIN serial THEN [serial EXCEPT ![key] = Seed(key)]
                        ELSE serial
           /\ running' = [running EXCEPT ![c] =
                            InitAfter([running[c] EXCEPT !.seeded = @ \cup {key}],
                                      running[c].key)]
    /\ UNCHANGED <<busVars, timers, now, uiVars, nextCall, pubs, got, notified, unsubbed,
                   subCalls, lastWrite, hist>>

\* the stores a tab may be opened on: a browser that never ran the program, and one
\* that did: every menu item deleted, two orders and a customer stored
StoresAtStartup ==
    {[menu |-> NotWritten, orders |-> NotWritten, customers |-> NotWritten],
     [menu |-> <<>>, orders |-> StoredOrders, customers |-> StoredCustomers]}

InitStartup ==
    /\ \E s \in StoresAtStartup :
          /\ menu = s.menu
          /\ orders = s.orders
          /\ customers = s.customers
    /\ listeners = [c \in Ctx |-> <<>>]
    /\ now = DayMs - 1
    /\ dash = NoDash
    /\ kiosk = NoKiosk
    /\ pos = NoPos
    /\ InitLoop
    /\ InitHistory
    /\ serial = [orders |-> orders, menu |-> menu]

\* Tabs are loaded, each calling init(); the admin deletes menu items and a customer
\* registers at the kiosk meanwhile.
NextStartup ==
    \/ \E c \in Ctx : StartInit(c) \/ InitCheck(c) \/ InitSeed(c)
    \/ CallDeleteMenuItem("admin")
    \/ CallRegister("kiosk")
    \/ RegisterRead("kiosk")
    \/ RegisterWrite("kiosk")
    \/ \E c \in Ctx : Steps(c)

SpecStartup == InitStartup /\ [][NextStartup]_vars

\* the step of c's init() that looks at, or writes, key number i
InitAt(c, pc, i) ==
    /\ running[c] # NoCall
    /\ running[c].kind = "init"
    /\ running[c].pc = pc
    /\ running[c].key = i
    /\ running'[c] # running[c]



\* C26: init() writes a collection only when it finds it never written, and then the
\* seed (the starter menu, no orders, no customers); a collection that exists - an
\* emptied menu, stored orders or customers - it leaves alone, so an init() called on a
\* store whose collections all exist writes nothing, however often it is called.
C26_InitOnlySeeds ==
    [][\A c \in Ctx, i \in 1..Len(InitKeys) :
          /\ InitAt(c, "check", i) =>
                /\ <<menu, orders, customers>>' = <<menu, orders, customers>>
                /\ StoreOf(InitKeys[i]) # NotWritten =>
                      (running'[c] = NoCall \/ running'[c].pc = "check")
          /\ InitAt(c, "seed", i) =>
                /\ InitKeys[i] \in running[c].absent0
                /\ menu' = IF i = 1 THEN JsonRecords(INITIAL_MENU) ELSE menu
                /\ orders' = IF i = 2 THEN <<>> ELSE orders
                /\ customers' = IF i = 3 THEN <<>> ELSE customers]_vars

\* an init() called on a store with an emptied menu, two orders and a customer has
\* looked at the three keys and written none
C26_Witness ==
    \E c \in Ctx :
        /\ running[c] # NoCall /\ running[c].kind = "init"
        /\ running[c].key = 3 /\ running[c].pc = "check"
        /\ running[c].absent0 = {} /\ running[c].seeded = {}
        /\ menu = <<>>
        /\ Len(orders) = 2
        /\ customers # <<>>

\* ------------------------------------------------------------- every operation's event
\* customers.find(c => c.phone === phone && c.password === password) || null
LoginResult(snap, phone, password) ==
    IF \E i \in 1..Len(snap) : snap[i].phone = phone /\ snap[i].password = password
    THEN snap[CHOOSE i \in 1..Len(snap) :
                 /\ snap[i].phone = phone /\ snap[i].password = password
                 /\ \A j \in 1..(i - 1) :
                       ~(snap[j].phone = phone /\ snap[j].password = password)]
    ELSE [null |-> TRUE]

\* CustomerKiosk.handleAuthSubmit in login mode
CallLogin(c) ==
    \E pw \in {"pw", "no"} :
        StartCallBy(c, "loginCustomer", [phone |-> "0911", password |-> pw], "auth", "net2")

\* CustomerList.loadCustomers
CallGetCustomers(c) == StartCallBy(c, "getCustomers", NoData, "auth", "net2")

\* The timeout of loginCustomer or getCustomers fires: the stored customers are parsed
\* and the customer found, or all of them, returned.
CustomersRead(c) ==
    /\ ~Blocked(c)
    /\ timers[c] # <<>>
    /\ Head(timers[c]).pc = "net2"
    /\ Head(timers[c]).by = "auth"
    /\ Head(timers[c]).kind \in {"loginCustomer", "getCustomers"}
    /\ LET k == Head(timers[c])
       IN  /\ timers' = [timers EXCEPT ![c] = Tail(@)]
           /\ hist' = [hist EXCEPT
                         ![k.n].state = "resolved",
                         ![k.n].snap = Parse(customers),
                         ![k.n].ret = IF k.kind = "getCustomers"
                                      THEN [all |-> Parse(customers)]
                                      ELSE LoginResult(Parse(customers), k.arg.phone,
                                                       k.arg.password)]
    /\ UNCHANGED <<storeVars, busVars, running, now, uiVars, nextCall, pubs, got, notified,
                   unsubbed, subCalls, lastWrite, serial>>

\* Every operation of the data-access layer is called in one tab; both tabs have
\* subscribers.
NextEvents ==
    \/ Calls("admin")
    \/ CallGetOrders("admin")
    \/ CallGetOrdersByDate("admin")
    \/ CallGetMenu("admin")
    \/ CallRegister("admin")
    \/ CallLogin("admin")
    \/ CallGetCustomers("admin")
    \/ RegisterRead("admin")
    \/ RegisterWrite("admin")
    \/ CustomersRead("admin")
    \/ \E c \in Ctx : Steps(c)

SpecEvents == Init /\ [][NextEvents]_vars

\* ------------------------------------------------------------- C27
\* the event type the interface defines for an operation
DefinedEvent(kind) ==
    CASE kind \in {"addMenuItem", "updateMenuItem", "deleteMenuItem"} -> "MENU_UPDATE"
      [] kind = "saveOrder" -> "NEW_ORDER"
      [] kind = "updateOrderStatus" -> "STATUS_UPDATE"
      [] kind = "clearOrdersByDate" -> "GENERIC_UPDATE"
      [] OTHER -> "none"

\* how many times the event of call n has reached context c, handled or still on
\* the channel
Arrived(c, n) ==
    Len(notified[<<c, n>>]) + Len(SelectSeq(channel[c], LAMBDA m : m.pub = n))

\* C27: a call that has ended and changed its collection published one event, of the
\* type defined for its operation (a MENU_UPDATE without payload): its own context
\* handled it once, each subscriber there was invoked once, and it reached the other
\* context once. A call that ended without a write of the orders or the menu, which
\* registerCustomer, loginCustomer and the reads always are, published nothing. No
\* context ever gets the event of a call twice.
C27_EventsAsDefined ==
    \A n \in CallIds :
        /\ \A c \in Ctx : Arrived(c, n) <= 1
        /\ (Issued(n) /\ hist[n].state \in {"resolved", "rejected"}) =>
              IF hist[n].kind \in OrderKinds \cup MenuKinds /\ hist[n].wrote
              THEN /\ Published(n)
                   /\ pubs[n].ev.type = DefinedEvent(hist[n].kind)
                   /\ pubs[n].ev.type = "MENU_UPDATE" => pubs[n].ev = [type |-> "MENU_UPDATE", data |-> NoData]
                   /\ notified[<<hist[n].ctx, n>>] = <<listeners[hist[n].ctx]>>
                   /\ \A l \in {"L1", "L2"} : got[<<hist[n].ctx, l, n>>] = 1
                   /\ \A c \in Ctx : Arrived(c, n) = 1
              ELSE /\ ~Published(n)
                   /\ \A c \in Ctx : Arrived(c, n) = 0
                   /\ \A c \in Ctx, l \in AllListeners : got[<<c, l, n>>] = 0
        /\ (Issued(n) /\ hist[n].kind \notin OrderKinds \cup MenuKinds) =>
              /\ ~Published(n)
              /\ \A c \in Ctx : Arrived(c, n) = 0

\* a registration that stored a customer published nothing, and a deleteMenuItem
\* published a bare MENU_UPDATE the other tab has handled
C27_Witness ==
    \E m, n \in CallIds :
        /\ Issued(m) /\ hist[m].kind = "registerCustomer" /\ hist[m].wrote
        /\ hist[m].state = "resolved" /\ ~Published(m)
        /\ Issued(n) /\ hist[n].kind = "deleteMenuItem" /\ hist[n].state = "resolved"
        /\ Published(n) /\ pubs[n].ev.type = "MENU_UPDATE"
        /\ got[<<"kiosk", "L1", n>>] = 1

\* ------------------------------------------------------------- C28
\* C28: any two audible new-order alerts of the dashboard are at least two seconds
\* apart.
C28_AlertsDebounced ==
    \A i, j \in 1..Len(dash.alerts) :
        i < j => dash.alerts[j] - dash.alerts[i] >= ALERT_DEBOUNCE_MS

\* ------------------------------------------------------------- the kiosk's status alerts
\* the minimize button of the tracking view: setIsTrackingMinimized(true)
KioskMinimize ==
    /\ kiosk.mounted
    /\ kiosk.activeOrder # NoOrder
    /\ ~kiosk.isTrackingMinimized
    /\ kiosk' = [kiosk EXCEPT !.isTrackingMinimized = TRUE]
    /\ UNCHANGED <<storeVars, busVars, loopVars, dash, pos, histVars>>

\* the Preparing and Ready buttons of the dashboard's detail panel, for the first order
CallSetTracked(c) ==
    \E s \in {"preparing", "ready"} :
        StartCall(c, "updateOrderStatus", [orderId |-> 1000, status |-> s])

\* The kiosk tracks an order the admin sets to preparing or ready, in any order, from
\* the detail panel; the customer may minimize the tracking view.
NextTrack ==
    \/ KioskMount
    \/ KioskEffect
    \/ CheckStatus
    \/ KioskMinimize
    \/ CallSetTracked("admin")
    \/ ResumeFirst("admin")
    \/ ResumeRead("admin")
    \/ WriteStep("admin")
    \/ PublishStep("admin")
    \/ Deliver("kiosk")
    \/ Drop("kiosk")

SpecTrack == InitBus /\ [][NextTrack]_vars

\* ------------------------------------------------------------- C29, C30
\* a status check of the kiosk is resumed in this step
CheckResumes ==
    /\ timers["kiosk"] # <<>>
    /\ Head(timers["kiosk"]).by = "kiosk"
    /\ timers'["kiosk"] = Tail(timers["kiosk"])
    /\ kiosk.mounted

\* the snapshot the resumed check's closure holds, and the order it fetches
PrevSnapshot == Head(timers["kiosk"]).arg.prev
FreshOrder == FindOrder(GetOrders(orders), Head(timers["kiosk"]).arg.oid)

\* how many alerts of that kind have been given
AlertCount(as, kind) == Len(SelectSeq(as, LAMBDA a : a = kind))

\* C29: a status check whose previous snapshot has a status other than ready and
\* whose fresh order is ready gives the ready alert, and only it, and leaves the
\* tracking view un-minimized; a check whose previous snapshot is ready gives no
\* ready alert.
C29_ReadyAlert ==
    [][CheckResumes /\ PrevSnapshot # NoOrder /\ FreshOrder # NoOrder =>
          /\ (PrevSnapshot.status # "ready" /\ FreshOrder.status = "ready") =>
                /\ kiosk'.alerts = Append(kiosk.alerts, "ready")
                /\ ~kiosk'.isTrackingMinimized
          /\ PrevSnapshot.status = "ready" =>
                AlertCount(kiosk'.alerts, "ready") = AlertCount(kiosk.alerts, "ready")]_vars

\* the ready alert was given once, for a view that had been minimized or not, and a
\* later check that held the ready snapshot has been resumed
C29_Witness ==
    /\ kiosk.alerts = <<"ready">>
    /\ ~kiosk.isTrackingMinimized
    /\ kiosk.effect
    /\ kiosk.cap.prev # NoOrder
    /\ kiosk.cap.prev.status = "ready"
    /\ kiosk.activeOrder.status = "ready"

\* C30: a status check whose previous snapshot is not preparing and whose fresh
\* order is preparing gives the soft preparing alert.
C30_PreparingAlert ==
    [][(/\ CheckResumes
        /\ PrevSnapshot # NoOrder /\ FreshOrder # NoOrder
        /\ PrevSnapshot.status # "preparing" /\ FreshOrder.status = "preparing") =>
          kiosk'.alerts = Append(kiosk.alerts, "preparing")]_vars

\* ------------------------------------------------------------- the kiosk's session
\* {activeOrder && !isTrackingMinimized && <TrackingModal />}: the tracking view, a
\* fixed full-screen overlay above the menu, the cart and the checkout button
TrackingShown == kiosk.activeOrder # NoOrder /\ ~kiosk.isTrackingMinimized

\* the menu and the cart can be reached: an item is put in the empty cart
SessionAddToCart == ~TrackingShown /\ kiosk.cart = <<>> /\ KioskAddToCart

\* ... and the cart is checked out
SessionCheckout == ~TrackingShown /\ ~Blocked("kiosk") /\ KioskCheckout

\* the Start New Order button, rendered in the tracking view when the snapshot is
\* completed or cancelled: handleNewOrder
KioskNewOrder ==
    /\ kiosk.mounted
    /\ TrackingShown
    /\ kiosk.activeOrder.status \in {"completed", "cancelled"}
    /\ kiosk' = [kiosk EXCEPT !.activeOrderId = 0, !.saved = "", !.activeOrder = NoOrder,
                              !.isTrackingMinimized = FALSE, !.effect = TRUE]
    /\ UNCHANGED <<storeVars, busVars, loopVars, dash, pos, histVars>>

\* the ids an active-order entry can hold: one found at the first load, or the id of
\* an order a checkout has saved
ActiveOrderIds ==
    SavedActiveOrder \cup
    {hist[n].arg.order.id : n \in {m \in CallIds : hist[m] # NoCall /\ hist[m].kind = "saveOrder"}}

\* (mutant) the entry is not read back
ParseSavedNone(text) == 0

\* saved ? parseInt(saved) : null
ParseSaved(text) ==
    IF text = "" THEN 0
    ELSE CHOOSE id \in ActiveOrderIds : ToString(id) = text

\* The kiosk page is reloaded: timers, subscribers and component state of the tab are
\* gone, localStorage stays; CustomerKiosk is rendered again with activeOrderId
\* parsed from 'hm_pos_active_order' and no snapshot.
KioskReload ==
    /\ kiosk.mounted
    /\ ~Blocked("kiosk")
    /\ kiosk' = [NoKiosk EXCEPT !.mounted = TRUE, !.activeOrderId = ParseSaved(kiosk.saved),
                                !.saved = kiosk.saved, !.effect = TRUE,
                                !.alerts = kiosk.alerts]
    /\ timers' = [timers EXCEPT !["kiosk"] = <<>>]
    /\ listeners' = [listeners EXCEPT !["kiosk"] = <<>>]
    /\ channel' = [channel EXCEPT !["kiosk"] = <<>>]
    /\ UNCHANGED <<storeVars, running, now, dash, pos, histVars>>

\* the Done button of the dashboard's detail panel, for the first order
CallSetSession(c) ==
    StartCall(c, "updateOrderStatus", [orderId |-> 1000, status |-> "completed"])

\* A customer at the kiosk: the page is loaded, orders are placed and tracked, the
\* tracking view minimized, a new order started, the page reloaded, while the admin
\* changes the status of the first order.
NextSession ==
    \/ KioskMount
    \/ KioskEffect
    \/ CheckStatus
    \/ KioskMinimize
    \/ SessionAddToCart
    \/ SessionCheckout
    \/ KioskCheckoutDone
    \/ KioskNewOrder
    \/ KioskReload
    \/ CallSetSession("admin")
    \/ \E c \in Ctx : OwnSteps(c)
    \/ Deliver("kiosk")

SpecSession == InitBus /\ [][NextSession]_vars

\* ------------------------------------------------------------- C31
\* the states of an order that is still on its way
ActiveStatus == {"pending", "preparing", "ready"}

\* the kiosk tracks an order that is pending, preparing or ready, in the store and
\* in the snapshot the kiosk holds of it
TracksActiveOrder ==
    /\ kiosk.mounted
    /\ kiosk.activeOrderId # 0
    /\ kiosk.activeOrder # NoOrder
    /\ kiosk.activeOrder.id = kiosk.activeOrderId
    /\ kiosk.activeOrder.status \in ActiveStatus
    /\ FindIndex(orders, kiosk.activeOrderId) # 0
    /\ orders[FindIndex(orders, kiosk.activeOrderId)].status \in ActiveStatus

\* C31: while the order the kiosk tracks is pending, preparing or ready, no step
\* replaces or clears the kiosk's active order id.
C31_ActiveOrderKept ==
    [][TracksActiveOrder => kiosk'.activeOrderId = kiosk.activeOrderId]_vars

\* ------------------------------------------------------------- C32
\* handleCheckout continues after its saveOrder in this step
CheckoutCompletes ==
    /\ running["kiosk"] # NoCall
    /\ running["kiosk"].by = "kioskCheckout"
    /\ running["kiosk"].pc = "published"
    /\ running'["kiosk"] = NoCall

\* the id the persisted entry stands for: the one whose decimal text it is
EntryId(text) ==
    IF \E id \in ActiveOrderIds : ToString(id) = text
    THEN CHOOSE id \in ActiveOrderIds : ToString(id) = text
    ELSE 0

\* C32: when a checkout completes the persisted active-order entry is the new order's
\* id; in every state of the mounted kiosk, the first after a reload included, the
\* active order id is the one the entry holds, and none when there is no entry; a
\* step of the mounted kiosk that leaves the entry alone, as a reload is, leaves the
\* active order id alone; Start New Order removes the entry.
C32_ActiveIdSurvives ==
    [][/\ CheckoutCompletes =>
             /\ kiosk'.saved = ToString(running["kiosk"].arg.order.id)
             /\ kiosk'.activeOrderId = running["kiosk"].arg.order.id
       /\ kiosk'.mounted =>
             /\ kiosk'.activeOrderId = EntryId(kiosk'.saved)
             /\ kiosk'.saved = "" <=> kiosk'.activeOrderId = 0
       /\ (kiosk.mounted /\ kiosk'.saved = kiosk.saved) =>
             kiosk'.activeOrderId = kiosk.activeOrderId
       /\ (kiosk.mounted /\ kiosk.activeOrderId # 0 /\ kiosk'.activeOrderId = 0) =>
             kiosk'.saved = ""]_vars

\* the kiosk was reloaded after a checkout and tracks the order of that checkout,
\* of which it holds no snapshot yet
C32_Witness ==
    /\ kiosk.mounted
    /\ kiosk.activeOrder = NoOrder
    /\ kiosk.activeOrderId \notin SavedActiveOrder
    /\ \E n \in CallIds :
          /\ Issued(n) /\ hist[n].kind = "saveOrder"
          /\ hist[n].arg.order.id = kiosk.activeOrderId
          /\ kiosk.saved = ToString(hist[n].arg.order.id)

\* ------------------------------------------------------------- the dashboard's status buttons
\* setOrders(prev => prev.map(o => o.id === orderId ? { ...o, status } : o))
OptimisticStatus(os, id, s) ==
    [i \in 1..Len(os) |-> IF os[i].id = id THEN [os[i] EXCEPT !.status = s] ELSE os[i]]

\* AdminDashboard.updateStatus(orderId, status): the local list is updated at once,
\* then dbService.updateOrderStatus(orderId, status) is called and awaited
DashUpdateStatus(id, s) ==
    /\ dash.mounted
    /\ nextCall <= MaxCalls
    /\ ~Blocked("admin")
    /\ QueueFree("admin")
    /\ dash' = [dash EXCEPT !.orders = OptimisticStatus(@, id, s)]
    /\ timers' = [timers EXCEPT !["admin"] =
                    Append(@, NewCallBy("updateOrderStatus",
                                        [orderId |-> id, status |-> s], "api", "net1"))]
    /\ nextCall' = nextCall + 1
    /\ hist' = [hist EXCEPT ![nextCall] =
                  [ctx |-> "admin", kind |-> "updateOrderStatus",
                   arg |-> [orderId |-> id, status |-> s], state |-> "pending",
                   wrote |-> FALSE, snap |-> <<>>, ret |-> NoData]]
    /\ UNCHANGED <<storeVars, busVars, running, now, kiosk, pos, pubs, got, notified,
                   unsubbed, subCalls, lastWrite, serial>>

\* the Kanban columns: orders.filter(o => o.status === 'pending' / 'preparing' / 'ready')
KanbanColumns == {"pending", "preparing", "ready"}

\* the order the buttons are pressed for
BoardOrderIds == {1000}

\* a card of a column is clicked: handleViewOrder(order), setSelectedOrder(order)
DashSelect ==
    /\ dash.mounted
    /\ dash.selected = 0
    /\ \E i \in 1..Len(dash.orders) :
          /\ dash.orders[i].status \in KanbanColumns
          /\ dash.orders[i].id \in BoardOrderIds
          /\ dash' = [dash EXCEPT !.selected = dash.orders[i].id]
    /\ UNCHANGED <<storeVars, busVars, loopVars, kiosk, pos, histVars>>

\* the Change Status buttons of the details panel: Pending, Preparing, Ready, Done
PanelStatuses == {"pending", "preparing", "ready", "completed"}

\* a Change Status button is pressed: updateStatus(selectedOrder.id, s)
DashPanelTo(s) ==
    /\ dash.selected # 0
    /\ s \in PanelStatuses
    /\ DashUpdateStatus(dash.selected, s)

DashPanel == \E s \in Status : DashPanelTo(s)

\* The admin looks at an order on the dashboard and changes its status from the
\* details panel, while the dashboard reloads.
NextPanel ==
    \/ DashMount
    \/ DashEffect
    \/ DashTimer
    \/ LoadOrders
    \/ DashSelect
    \/ DashPanel
    \/ OwnSteps("admin")

SpecPanel == InitBus /\ [][NextPanel]_vars

\* ------------------------------------------------------------- C33
\* the dashboard can take a click on a status button now
PanelReady ==
    /\ dash.mounted
    /\ dash.selected # 0
    /\ nextCall <= MaxCalls
    /\ ~Blocked("admin")
    /\ QueueFree("admin")

\* C33: with an order selected, the details panel can set it to each of the five
\* order states, whatever its current state.
C33_AnyStatusSelectable ==
    PanelReady => \A s \in Status : ENABLED DashPanelTo(s)

\* what does hold: each of the four states with a button can be set, from any state
C33_ButtonStatusSelectable ==
    PanelReady => \A s \in PanelStatuses : ENABLED DashPanelTo(s)

\* the selected order is completed in the store and is set back to pending
C33_BackwardReached ==
    \E n \in CallIds :
        /\ Issued(n) /\ hist[n].kind = "updateOrderStatus" /\ hist[n].state = "resolved"
        /\ hist[n].arg.status = "pending" /\ hist[n].wrote
        /\ StatusIn(hist[n].snap, hist[n].arg.orderId) = "completed"

\* ------------------------------------------------------------- C37
\* the status the dashboard's local list shows for the order
LocalStatus(id) == dash.orders[FindIndex(dash.orders, id)].status

\* C37: once the admin, the only actor, has changed an order's status on the
\* dashboard, the dashboard's local list shows the status the admin chose last, in
\* every later state: it does not go back to the status before the change.
C37_LocalStatusKept ==
    (dash.mounted /\ nextCall > 1 /\ FindIndex(dash.orders, hist[nextCall - 1].arg.orderId) # 0) =>
        LocalStatus(hist[nextCall - 1].arg.orderId) = hist[nextCall - 1].arg.status

\* ------------------------------------------------------------- C34
\* the reloads of the dashboard that are in flight
ReloadsInFlight == SelectSeq(timers["admin"], LAMBDA k : k.by = "dash")

\* C34: whenever a reload replaces the dashboard's local list, the new list is the
\* store's content as it is at that step, read and applied in one task, so no reload
\* puts back a snapshot older than one applied before, however many reloads are in
\* flight; and the list of the mounted dashboard eventually equals the store's
\* content.
C34_ReloadsInOrder ==
    /\ [][dash'.orders # dash.orders => dash'.orders = GetOrders(orders)]_vars
    /\ (dash.mounted /\ dash.interval) ~> (dash.orders = GetOrders(orders))

\* two reloads are in flight at once, and the list already holds an order saved
\* after the dashboard was opened
C34_Witness ==
    /\ dash.mounted
    /\ Len(ReloadsInFlight) >= 2
    /\ \E id \in SavedIds : id \in Ids(dash.orders)
    /\ dash.orders = GetOrders(orders)

\* ------------------------------------------------------------- the Kanban forward buttons
\* nextAction of the cards of the three columns: Start Preparing, Mark Ready, Complete
Forward(s) ==
    CASE s = "pending" -> "preparing"
      [] s = "preparing" -> "ready"
      [] s = "ready" -> "completed"

\* the forward button of a card of the dashboard's local list is pressed
DashKanban ==
    \E i \in 1..Len(dash.orders) :
        /\ dash.orders[i].status \in KanbanColumns
        /\ dash.orders[i].id \in BoardOrderIds
        /\ DashUpdateStatus(dash.orders[i].id, Forward(dash.orders[i].status))

\* A second dashboard is open in the other tab; dash.peer is its local list.  One of
\* its reloads resumes: setOrders(allOrders)
PeerLoad ==
    /\ dash.peer # GetOrders(orders)
    /\ dash' = [dash EXCEPT !.peer = GetOrders(orders)]
    /\ UNCHANGED <<storeVars, busVars, loopVars, kiosk, pos, histVars>>

\* the forward button of a card of the second dashboard is pressed: updateStatus
PeerKanban ==
    \E i \in 1..Len(dash.peer) :
        /\ dash.peer[i].status \in KanbanColumns
        /\ dash.peer[i].id \in BoardOrderIds
        /\ nextCall <= MaxCalls
        /\ ~Blocked("kiosk")
        /\ QueueFree("kiosk")
        /\ LET arg == [orderId |-> dash.peer[i].id, status |-> Forward(dash.peer[i].status)]
           IN  /\ dash' = [dash EXCEPT
                             !.peer = OptimisticStatus(@, arg.orderId, arg.status)]
               /\ timers' = [timers EXCEPT !["kiosk"] =
                               Append(@, NewCallBy("updateOrderStatus", arg, "api", "net1"))]
               /\ hist' = [hist EXCEPT ![nextCall] =
                             [ctx |-> "kiosk", kind |-> "updateOrderStatus", arg |-> arg,
                              state |-> "pending", wrote |-> FALSE, snap |-> <<>>,
                              ret |-> NoData]]
        /\ nextCall' = nextCall + 1
        /\ UNCHANGED <<storeVars, busVars, running, now, kiosk, pos, pubs, got, notified,
                       unsubbed, subCalls, lastWrite, serial>>

\* Two dashboards are open.  The first order has been set to preparing from the first
\* one; the second, in the other tab, loaded its list before that and has not
\* reloaded since.
InitKanban ==
    /\ orders = <<MkOrder(1000, 1000, "preparing"), MkOrder(2000, 2000, "pending")>>
    /\ menu = INITIAL_MENU
    /\ customers = StoredCustomers
    /\ listeners = [c \in Ctx |-> <<>>]
    /\ now = DayMs - 1
    /\ dash = [NoDash EXCEPT !.peer = GetOrders(StoredOrders)]
    /\ kiosk = NoKiosk
    /\ pos = NoPos
    /\ InitLoop
    /\ InitHistory
    /\ serial = [orders |-> orders, menu |-> menu]

\* Orders are moved on with the forward buttons of the two dashboards only.
NextKanban ==
    \/ DashMount
    \/ DashEffect
    \/ LoadOrders
    \/ DashKanban
    \/ PeerLoad
    \/ PeerKanban
    \/ \E c \in Ctx : OwnSteps(c)
    \/ Deliver("admin")

SpecKanban == InitKanban /\ [][NextKanban]_vars

\* ------------------------------------------------------------- C35
\* the place of a status in the order's way
StatusRank(s) ==
    CASE s = "pending" -> 1
      [] s = "preparing" -> 2
      [] s = "ready" -> 3
      [] s = "completed" -> 4
      [] OTHER -> 5

\* C35: with the forward buttons as the only source of status changes, no step moves
\* the stored status of an order to an earlier state.
C35_ForwardOnly ==
    [][\A i \in 1..Len(orders) :
          \A j \in 1..Len(orders') :
              orders'[j].id = orders[i].id =>
                  StatusRank(orders'[j].status) >= StatusRank(orders[i].status)]_vars

\* ------------------------------------------------------------- C36
\* C36: a snapshot the kiosk holds is a snapshot of its active order: there is an
\* active order id and it is the snapshot's id.
C36_SnapshotOfActiveOrder ==
    (kiosk.mounted /\ kiosk.activeOrder # NoOrder) =>
        (kiosk.activeOrderId # 0 /\ kiosk.activeOrder.id = kiosk.activeOrderId)

\* ------------------------------------------------------------- C38
\* the writes that took the stored status of order id into status s from another one
TransitionsInto(id, s) ==
    {n \in CallIds :
        /\ Issued(n) /\ hist[n].kind = "updateOrderStatus" /\ hist[n].wrote
        /\ hist[n].arg.orderId = id /\ hist[n].arg.status = s
        /\ StatusIn(hist[n].snap, id) # s}

\* C38: the kiosk has given no more preparing alerts, and no more ready alerts, than
\* the stored status of its tracked order has made transitions into that state.
C38_OneAlertPerTransition ==
    \A s \in {"preparing", "ready"} :
        AlertCount(kiosk.alerts, s) <=
            Cardinality(UNION {TransitionsInto(id, s) : id \in SavedActiveOrder \ {0}})

\* ------------------------------------------------------------- C39
\* C39: a step takes at most one subscription of a listener function out of a
\* context's list: a call of the function subscribe returned removes the one
\* subscription it was returned for, and every other one, of the same function
\* too, stays subscribed and goes on receiving events.
C39_UnsubscribeRemovesOne ==
    [][\A c \in Ctx, l \in AllListeners :
          Count(listeners'[c], l) >= Count(listeners[c], l) - 1]_vars

\* ------------------------------------------------------------- the reloaded kiosk
\* The kiosk page has been reloaded while order 1000 was tracked: the id is restored
\* from localStorage, no snapshot is held, the tracking effect is due.
InitTracking ==
    /\ orders = StoredOrders
    /\ menu = INITIAL_MENU
    /\ customers = StoredCustomers
    /\ listeners = [c \in Ctx |-> <<>>]
    /\ now = DayMs - 1
    /\ dash = NoDash
    /\ kiosk = [NoKiosk EXCEPT !.mounted = TRUE, !.activeOrderId = 1000,
                               !.saved = SavedText(1000), !.effect = TRUE]
    /\ pos = NoPos
    /\ InitLoop
    /\ InitHistory
    /\ serial = [orders |-> orders, menu |-> menu]

\* the Ready and Done buttons of the dashboard's detail panel, for the first order
CallSetReadyDone(c) ==
    \E s \in {"ready", "completed"} :
        StartCall(c, "updateOrderStatus", [orderId |-> 1000, status |-> s])

NextTracking ==
    \/ KioskEffect
    \/ CheckStatus
    \/ CallSetReadyDone("admin")
    \/ OwnSteps("admin")
    \/ Deliver("kiosk")
    \/ Drop("kiosk")

\* The kiosk tab's event loop keeps running the tracker's tasks and handles the
\* messages posted to it; nothing is assumed of the admin.
SpecTracking ==
    InitTracking /\ [][NextTracking]_vars /\ WF_vars(KioskTasks) /\ WF_vars(Deliver("kiosk"))

\* ------------------------------------------------------------- C40
\* C40: once the stored status of the order the mounted kiosk tracks has been changed
\* to ready, the kiosk eventually gives the ready alert.
C40_ReadyAlertGiven ==
    (kiosk.mounted /\ kiosk.activeOrderId = 1000 /\ TransitionsInto(1000, "ready") # {})
        ~> (AlertCount(kiosk.alerts, "ready") > 0)

====
